---- MODULE Spec2Model ----
(***************************************************************************)
(* sshield: the SSH login notification pipeline of internal/core/notify.   *)
(* Log source -> parser -> filter stack -> dispatcher -> cursor store.     *)
(* Times are in milliseconds.                                              *)
(***************************************************************************)
EXTENDS Integers, Sequences, FiniteSets, TLC

VARIABLES
    filter,     \* notifyFilter: notifyOn, limit, window, deduper.seen, rateLimiter.counts
    fhist,      \* history: every event handed to shouldNotify with its outcome
    cfgFile,    \* the notify.json file: missing, corrupt or the JSON of a Config
    dpc,        \* dispatchEvent: "idle", "load", "loop", "sending", "done"
    dch,        \* dispatchEvent: channels := cfg.GetEnabledChannels()
    di,         \* dispatchEvent: index of the channel the range loop is at
    derrs,      \* dispatchEvent: errs, as the set of channels that added an error
    dret,       \* dispatchEvent: its return value, "nil" or "error"
    dcfg,       \* history: the Config loaded for the event being dispatched
    dsent,      \* history: number of Send calls per channel of dcfg for this event
    dres,       \* history: what each channel's Send returned for this event
    src,        \* opts.Source: "journal" or "file"
    clock,      \* the wall clock
    journal,    \* the records journald holds, oldest first
    files,      \* the log files by inode: their lines, and how often truncated
    pathInode,  \* the inode the log path names, 0 when the path names nothing
    nchg,       \* number of faults so far: removals, truncations and read errors of
                \* the log file, exits of journalctl, steps of the clock
    nrec,       \* number of records written so far
    disk,       \* the notify.state file: exists, JournalCursor, FileOffset
    cancelled,  \* ctx.Done() of the running command
    pc,         \* where the command is: "stopped", "open", "retry", "read",
                \* "eofSleep", "jscan", "lookup", "dispatch"
    ret,        \* what the command returned: "none" while it runs, "nil", or the error
    run,        \* the options of the command and time.Now() at its start
    state,      \* *SourceState in memory
    rd,         \* readLogFile: the open file
    offset,     \* readLogFile: offset
    latest,     \* sweepLogFileWithFilter: latest
    jpos,       \* number of journal records journalctl has passed by
    skipHistorical, \* runJournalWithFilter: skipHistorical
    cur,        \* the event being looked up or dispatched
    ipCache,    \* IPLookup.cache holds the address of the events
    nrun,       \* number of commands started so far
    rhist,      \* history: the events this run parsed, with what became of them
    handedEver, \* history: the events ever passed to dispatchEvent
    lastCall,   \* history: the event whose position the last Save call of this run had
    diskTag,    \* history: stream, newest record and run of the last Save that succeeded
    startTag,   \* history: the newest record the saved position reached at Start
    changedRun, \* history: the log file was removed, created or truncated in this run
    reopened,   \* history: the file reopenIfRotated opened last in this readLogFile call
    sfile,      \* cursor store alone: the bytes of the notify.state file
    sp,         \* cursor store alone: the commands that use the state file
    slen,       \* cursor store alone: number of records the log source holds
    sdone,      \* history: the state of the last Save that wrote all its bytes
    sgot,       \* history: what the last Load returned
    sarg,       \* history: the state the last Save was called with
    sel,        \* source selection alone: the arguments of determineSource and its result
    backup,     \* the notify.json.backup file: missing, or a copy of notify.json
    cli,        \* the sshield notify command that is running, and where it is
    chist,      \* history: the commands that ran, with the file they found and left
    smtp,       \* sendMailWithTimeout: the notifier, the server, and where Send is
    wire,       \* history: the protocol steps of this Send, in order
    curlIn,     \* curl parser alone: the command line given to tokenize or ParseCurl
    curlOut,    \* curl parser alone: what tokenize and ParseCurl returned
    logLine,    \* log parser alone: the line given to parseAuthLogLine
    logOut,     \* log parser alone: what parseAuthLogLine returned
    look,       \* IP lookup alone: IPLookup.cache, and where the running Lookup is
    lhist,      \* history: the Lookup calls that returned, with their provider queries
    logBytes,   \* file reader alone: the bytes of the log file
    reader,     \* file reader alone: readLogFile's position in the file, its offset,
                \* and the lines it handed to the parser
    attempt     \* one failed attempt: the records sshd wrote for it, the record the
                \* journal loop reads next, the saved cursor and the events dispatched

filterVars == <<filter, fhist>>
dispVars == <<cfgFile, dpc, dch, di, derrs, dret, dcfg, dsent, dres>>
envVars == <<src, clock, journal, files, pathInode, nchg, nrec>>
progVars == <<pc, ret, run, state, rd, offset, latest, jpos, skipHistorical, cur,
              ipCache, cancelled, nrun, disk>>
histVars == <<rhist, handedEver, lastCall, diskTag, startTag, changedRun, reopened>>
pipeVars == <<envVars, progVars, histVars>>
cliVars == <<backup, cli, chist>>
mailVars == <<smtp, wire>>
curlVars == <<curlIn, curlOut>>
parseVars == <<logLine, logOut>>
lookupVars == <<look, lhist>>
readerVars == <<logBytes, reader>>
attemptVars == <<attempt>>
aloneVars == <<curlVars, parseVars, lookupVars, readerVars, attemptVars>>
besidesCurl == <<parseVars, lookupVars, readerVars, attemptVars>>
besidesParse == <<curlVars, lookupVars, readerVars, attemptVars>>
besidesLookup == <<curlVars, parseVars, readerVars, attemptVars>>
besidesReader == <<curlVars, parseVars, lookupVars, attemptVars>>
besidesAttempt == <<curlVars, parseVars, lookupVars, readerVars>>
storeVars == <<sfile, sp, slen, sdone, sgot, sarg, sel>>
unitVars == <<storeVars, cliVars, mailVars, aloneVars>>
vars == <<filterVars, dispVars, pipeVars, unitVars>>

----------------------------------------------------------------------------
(* Bounds of the model *)

\* number of events handed to the filter stack in one run of the filter model
MaxEvents == 3

\* number of channels in a configuration file
MaxChannels == 2

\* number of lines written to the log source
MaxRecords == 2

\* number of commands (watch or sweep) started one after the other
MaxRuns == 2

\* number of faults: removals, truncations and read errors of the log file,
\* exits of journalctl, steps of the clock
MaxChanges == 1

\* number of times the clock moves on
MaxTicks == 1

----------------------------------------------------------------------------
(* Maps (Go map[K]V) as functions with a finite domain *)

EmptyMap == [x \in {} |-> 0]

MapPut(m, k, v) == [x \in (DOMAIN m) \cup {k} |-> IF x = k THEN v ELSE m[x]]

MapRestrict(m, keep) == [x \in keep |-> m[x]]

Last(s) == s[Len(s)]

----------------------------------------------------------------------------
(* Filter stack: watcher.go *)

EventLoginSuccess == "login_success"
EventLoginFailed == "login_failed"

NotifyOnAll == "all"
NotifyOnSuccess == "success"
NotifyOnFailed == "failed"

\* const eventDedupeWindow = 5 * time.Second
eventDedupeWindow == 5000

\* a key that tells the lines of one attempt apart by their method
DedupeKeyWithMethod(e) == <<e.IP, e.Port, e.User, e.Method>>

\* key := fmt.Sprintf("%s:%d:%s", event.IP, event.Port, event.User)
DedupeKey(e) == <<e.IP, e.Port, e.User>>

\* isDuplicate with the window test written <= instead of <
isDuplicateInclusive(seen, e) ==
    IF e.Type # EventLoginFailed
    THEN [dup |-> FALSE, seen |-> seen]
    ELSE LET key == DedupeKey(e) IN
         IF key \in DOMAIN seen /\ e.Timestamp - seen[key] <= eventDedupeWindow
         THEN [dup |-> TRUE, seen |-> seen]
         ELSE LET s1 == MapPut(seen, key, e.Timestamp)
                  keep == {k \in DOMAIN s1 :
                              ~(e.Timestamp - s1[k] > eventDedupeWindow * 10)}
              IN [dup |-> FALSE, seen |-> MapRestrict(s1, keep)]

\* isDuplicate that records the timestamp and never deletes a key
isDuplicateNoPrune(seen, e) ==
    IF e.Type # EventLoginFailed
    THEN [dup |-> FALSE, seen |-> seen]
    ELSE LET key == DedupeKey(e) IN
         IF key \in DOMAIN seen /\ e.Timestamp - seen[key] < eventDedupeWindow
         THEN [dup |-> TRUE, seen |-> seen]
         ELSE [dup |-> FALSE, seen |-> MapPut(seen, key, e.Timestamp)]

\* eventDeduper.isDuplicate: the verdict and the map it leaves behind
isDuplicate(seen, e) ==
    IF e.Type # EventLoginFailed
    THEN [dup |-> FALSE, seen |-> seen]
    ELSE LET key == DedupeKey(e) IN
         IF key \in DOMAIN seen /\ e.Timestamp - seen[key] < eventDedupeWindow
         THEN [dup |-> TRUE, seen |-> seen]
         ELSE LET s1 == MapPut(seen, key, e.Timestamp)
                  keep == {k \in DOMAIN s1 :
                              ~(e.Timestamp - s1[k] > eventDedupeWindow * 10)}
              IN [dup |-> FALSE, seen |-> MapRestrict(s1, keep)]

\* shouldLimit that also records the timestamp of an event it rejects
shouldLimitCountsRejected(counts, limit, window, e) ==
    IF limit <= 0 \/ e.Type # EventLoginFailed
    THEN [limited |-> FALSE, counts |-> counts]
    ELSE LET now == e.Timestamp
             ip == e.IP
             c1 == IF ip \in DOMAIN counts
                   THEN MapPut(counts, ip,
                               SelectSeq(counts[ip], LAMBDA t : now - t < window))
                   ELSE counts
             valid == IF ip \in DOMAIN c1 THEN c1[ip] ELSE << >>
         IN [limited |-> Len(valid) >= limit,
             counts |-> MapPut(c1, ip, Append(valid, now))]

\* failRateLimiter.shouldLimit: the verdict and the map it leaves behind
shouldLimit(counts, limit, window, e) ==
    IF limit <= 0 \/ e.Type # EventLoginFailed
    THEN [limited |-> FALSE, counts |-> counts]
    ELSE LET now == e.Timestamp
             ip == e.IP
             c1 == IF ip \in DOMAIN counts
                   THEN MapPut(counts, ip,
                               SelectSeq(counts[ip], LAMBDA t : now - t < window))
                   ELSE counts
             valid == IF ip \in DOMAIN c1 THEN c1[ip] ELSE << >>
         IN IF Len(valid) >= limit
            THEN [limited |-> TRUE, counts |-> c1]
            ELSE LET c2 == MapPut(c1, ip, Append(valid, now))
                     keep == {k \in DOMAIN c2 :
                                 ~(Len(c2[k]) = 0 \/ now - Last(c2[k]) > window * 2)}
                 IN [limited |-> FALSE, counts |-> MapRestrict(c2, keep)]

\* newNotifyFilter
newNotifyFilter(notifyOn, failLimit, failWindow) ==
    [notifyOn |-> notifyOn, limit |-> failLimit, window |-> failWindow,
     seen |-> EmptyMap, counts |-> EmptyMap]

\* notifyFilter.shouldNotify: type filter, then deduper, then rate limiter.
\* out names the stage that decided: "type", "dup", "limited" or "pass".
shouldNotify(f, e) ==
    IF \/ (f.notifyOn = NotifyOnSuccess /\ e.Type # EventLoginSuccess)
       \/ (f.notifyOn = NotifyOnFailed /\ e.Type # EventLoginFailed)
    THEN [out |-> "type", filter |-> f]
    ELSE LET d == isDuplicate(f.seen, e) IN
         IF d.dup
         THEN [out |-> "dup", filter |-> [f EXCEPT !.seen = d.seen]]
         ELSE LET r == shouldLimit(f.counts, f.limit, f.window, e) IN
              [out |-> IF r.limited THEN "limited" ELSE "pass",
               filter |-> [f EXCEPT !.seen = d.seen, !.counts = r.counts]]

----------------------------------------------------------------------------
(* Channel configuration: part_003 (types), service.go (validation),       *)
(* part_002 (ParseCurl), part_006 (ConfigManager)                          *)

\* a nil pointer
Nil == [nil |-> TRUE]

\* a curl command line: its words, and whether a quote is left open
CurlCmd(words, openQuote) == [words |-> words, openQuote |-> openQuote]

\* tokenize: the tokens of the command, or an error on an unclosed quote
tokenize(cmd) ==
    IF cmd.openQuote THEN [err |-> TRUE, tokens |-> << >>]
    ELSE [err |-> FALSE, tokens |-> cmd.words]

\* isURL: strings.HasPrefix(s, "http://") || strings.HasPrefix(s, "https://")
isURL(s) == s \in {"http://sink", "https://sink"}

\* strings.HasPrefix(arg, "-")
IsFlag(s) == s \in {"-X", "--request", "-H", "--header", "-d", "--data", "--data-raw",
                    "-k", "-s"}

\* parseHeader: a header needs a colon (strings.Index(h, ":") on the words used here)
parseHeader(h) ==
    [ok |-> h \in {"X: y", "Content-Type: application/json", "http://sink", "https://sink"}]

\* strings.ToUpper on the method words used here
ToUpper(s) == CASE s = "post" -> "POST" [] s = "get" -> "GET" [] s = "put" -> "PUT"
                [] s = "curl" -> "CURL" [] s = "-d" -> "-D" [] s = "-k" -> "-K"
                [] s = "--request" -> "--REQUEST" [] s = "--data-raw" -> "--DATA-RAW"
                [] s = "http://sink" -> "HTTP://SINK" [] s = "X: y" -> "X: Y"
                [] OTHER -> s

\* ParseCurl's loop over args from index i on, req being the request so far
RECURSIVE ParseCurlFrom(_, _, _)
ParseCurlFrom(args, i, req) ==
    IF i > Len(args)
    THEN IF req.URL = "" THEN [req EXCEPT !.err = TRUE] ELSE req
    ELSE LET arg == args[i] IN
         CASE arg = "curl" -> ParseCurlFrom(args, i + 1, req)
           [] arg \in {"-X", "--request"} ->
                IF i + 1 > Len(args) THEN [req EXCEPT !.err = TRUE]
                ELSE ParseCurlFrom(args, i + 2, [req EXCEPT !.Method = ToUpper(args[i + 1])])
           [] arg \in {"-H", "--header"} ->
                IF i + 1 > Len(args) THEN [req EXCEPT !.err = TRUE]
                ELSE IF ~parseHeader(args[i + 1]).ok THEN [req EXCEPT !.err = TRUE]
                ELSE ParseCurlFrom(args, i + 2,
                                   [req EXCEPT !.Headers = @ \cup {args[i + 1]}])
           [] arg \in {"-d", "--data", "--data-raw"} ->
                IF i + 1 > Len(args) THEN [req EXCEPT !.err = TRUE]
                ELSE ParseCurlFrom(args, i + 2,
                        [req EXCEPT !.Body = args[i + 1],
                                    !.Method = IF @ = "GET" THEN "POST" ELSE @])
           [] OTHER ->
                IF IsFlag(arg)
                THEN IF i + 1 <= Len(args) /\ ~IsFlag(args[i + 1]) /\ ~isURL(args[i + 1])
                     THEN ParseCurlFrom(args, i + 2, req)
                     ELSE ParseCurlFrom(args, i + 1, req)
                ELSE IF isURL(arg)
                     THEN ParseCurlFrom(args, i + 1, [req EXCEPT !.URL = arg])
                     ELSE ParseCurlFrom(args, i + 1, req)

\* a ParseCurl whose request starts with method POST
ParseCurlDefaultPost(cmd) ==
    LET t == tokenize(cmd) IN
    IF t.err THEN [Method |-> "GET", URL |-> "", Headers |-> {}, Body |-> "", err |-> TRUE]
    ELSE ParseCurlFrom(t.tokens, 1,
            [Method |-> "POST", URL |-> "", Headers |-> {}, Body |-> "", err |-> FALSE])

\* ParseCurl: err is TRUE when the command is rejected
ParseCurl(cmd) ==
    LET t == tokenize(cmd) IN
    IF t.err THEN [Method |-> "GET", URL |-> "", Headers |-> {}, Body |-> "", err |-> TRUE]
    ELSE ParseCurlFrom(t.tokens, 1,
            [Method |-> "GET", URL |-> "", Headers |-> {}, Body |-> "", err |-> FALSE])

\* http.Client{Timeout: d}: zero means no timeout
HttpClient(timeout) == [Timeout |-> timeout]

\* http.DefaultClient
DefaultClient == HttpClient(0)

\* NewCurlNotifier: the notifier, or err when the command does not parse
NewCurlNotifier(cmd) ==
    LET parsed == ParseCurl(cmd) IN
    [err |-> parsed.err, kind |-> "curl", parsedCurl |-> parsed,
     httpClient |-> HttpClient(10000)]

\* buildChannelNotifier
buildChannelNotifier(ch) ==
    CASE ch.Type = "curl" ->
            IF ch.Curl = Nil THEN [err |-> TRUE, kind |-> "none"]
            ELSE NewCurlNotifier(ch.Curl)
      [] ch.Type = "email" ->
            IF ch.Email = Nil THEN [err |-> TRUE, kind |-> "none"]
            ELSE [err |-> FALSE, kind |-> "email", email |-> ch.Email]
      [] OTHER -> [err |-> TRUE, kind |-> "none"]

\* validateCurlChannel: TRUE when the channel is accepted
validateCurlChannel(ch) ==
    /\ ch.Curl # Nil
    /\ ~(ch.Curl.words = << >> /\ ~ch.Curl.openQuote)

\* mail.ParseAddress on the addresses used here
ParseAddressOK(a) == a \in {"ops@example.com", "sshield@example.com"}

\* validateEmailChannel: TRUE when the channel is accepted
validateEmailChannel(ch) ==
    /\ ch.Email # Nil
    /\ ch.Email.To # "" /\ ParseAddressOK(ch.Email.To)
    /\ ch.Email.From # "" /\ ParseAddressOK(ch.Email.From)
    /\ ch.Email.Server # ""
    /\ ~(ch.Email.Port <= 0 \/ ch.Email.Port > 65535)
    /\ ch.Email.User # ""
    /\ ch.Email.Pass # ""

\* ValidateChannelConfig: TRUE when the channel is accepted
ValidateChannelConfig(ch) ==
    CASE ch.Type = "curl" -> validateCurlChannel(ch)
      [] ch.Type = "email" -> validateEmailChannel(ch)
      [] OTHER -> FALSE

\* ValidateConfig: every channel is validated, enabled or not
ValidateConfig(cfg) == \A i \in DOMAIN cfg : ValidateChannelConfig(cfg[i])

\* a LoadConfig that validates the enabled channels only
LoadConfigEnabledOnly(file) ==
    CASE file.state = "missing" -> [err |-> "notfound", cfg |-> << >>]
      [] file.state = "corrupt" -> [err |-> "error", cfg |-> << >>]
      [] OTHER -> IF \A i \in DOMAIN file.channels :
                        file.channels[i].Enabled => ValidateChannelConfig(file.channels[i])
                  THEN [err |-> "none", cfg |-> file.channels]
                  ELSE [err |-> "error", cfg |-> << >>]

\* ConfigManager.LoadConfig: err is "notfound", "error" or "none"
LoadConfig(file) ==
    CASE file.state = "missing" -> [err |-> "notfound", cfg |-> << >>]
      [] file.state = "corrupt" -> [err |-> "error", cfg |-> << >>]
      [] OTHER -> IF ValidateConfig(file.channels)
                  THEN [err |-> "none", cfg |-> file.channels]
                  ELSE [err |-> "error", cfg |-> << >>]

\* Config.GetEnabledChannels, each channel with its position in the file
GetEnabledChannels(cfg) ==
    LET RECURSIVE From(_)
        From(i) == IF i > Len(cfg) THEN << >>
                   ELSE IF cfg[i].Enabled
                        THEN <<[ch |-> cfg[i], idx |-> i]>> \o From(i + 1)
                        ELSE From(i + 1)
    IN From(1)

\* the channel entries a configuration file is made of
EmailOK == [To |-> "ops@example.com", From |-> "sshield@example.com",
            Server |-> "smtp.example.com", Port |-> 587, User |-> "u", Pass |-> "p"]

ChannelBodies ==
    {[Type |-> "curl", Email |-> Nil,
      Curl |-> CurlCmd(<<"curl", "-X", "post", "-d", "{}", "http://sink">>, FALSE)],
     [Type |-> "curl", Email |-> Nil,
      Curl |-> CurlCmd(<<"curl", "-X", "post">>, FALSE)],
     [Type |-> "curl", Email |-> Nil, Curl |-> CurlCmd(<<"curl", "http://sink">>, TRUE)],
     [Type |-> "email", Curl |-> Nil, Email |-> EmailOK],
     [Type |-> "email", Curl |-> Nil, Email |-> [EmailOK EXCEPT !.Port = 0]]}

ChannelPool ==
    {[Enabled |-> en, Type |-> b.Type, Curl |-> b.Curl, Email |-> b.Email] :
        en \in BOOLEAN, b \in ChannelBodies}

Configs == UNION {[1..n -> ChannelPool] : n \in 0..MaxChannels}

\* what the configuration file can hold: nothing, bytes that are not JSON, a Config
ConfigFiles ==
    {[state |-> "missing", channels |-> << >>], [state |-> "corrupt", channels |-> << >>]}
        \cup {[state |-> "json", channels |-> c] : c \in Configs}

----------------------------------------------------------------------------
(* Dispatcher: watcher.go dispatchEvent, part_007 CurlNotifier.Send,       *)
(* part_002 CurlRequest.Execute and EmailNotifier.sendMailWithTimeout      *)

DispatchIdle ==
    /\ dpc = "idle" /\ dch = << >> /\ di = 0 /\ derrs = {} /\ dret = "nil"
    /\ dcfg = << >> /\ dsent = << >> /\ dres = << >>

\* a dispatchEvent that loads the configuration once and keeps it for later events
DispatchEnterCached ==
    IF dcfg = << >>
    THEN /\ dpc' = "load" /\ dch' = << >> /\ di' = 0 /\ derrs' = {} /\ dret' = "nil"
         /\ dcfg' = << >> /\ dsent' = << >> /\ dres' = << >>
    ELSE /\ dpc' = "loop" /\ di' = 1 /\ derrs' = {} /\ dret' = "nil"
         /\ dsent' = [i \in DOMAIN dcfg |-> 0]
         /\ dres' = [i \in DOMAIN dcfg |-> "none"]
         /\ UNCHANGED <<dcfg, dch>>

\* dispatchEvent is entered: the caller hands it an event
DispatchEnter ==
    /\ dpc' = "load" /\ dch' = << >> /\ di' = 0 /\ derrs' = {} /\ dret' = "nil"
    /\ dcfg' = << >> /\ dsent' = << >> /\ dres' = << >>

\* dispatchEvent up to the range loop: loadConfig and GetEnabledChannels
DispatchLoad ==
    /\ dpc = "load"
    /\ LET l == LoadConfig(cfgFile) IN
       IF l.err = "notfound"
       THEN /\ dpc' = "done" /\ dret' = "nil"
            /\ UNCHANGED <<dch, di, derrs, dcfg, dsent, dres>>
       ELSE IF l.err = "error"
       THEN /\ dpc' = "done" /\ dret' = "error"
            /\ UNCHANGED <<dch, di, derrs, dcfg, dsent, dres>>
       ELSE LET channels == GetEnabledChannels(l.cfg) IN
            /\ dcfg' = l.cfg
            /\ dsent' = [i \in DOMAIN l.cfg |-> 0]
            /\ dres' = [i \in DOMAIN l.cfg |-> "none"]
            /\ dch' = channels
            /\ IF Len(channels) = 0
               THEN dpc' = "done" /\ dret' = "nil" /\ UNCHANGED <<di, derrs>>
               ELSE dpc' = "loop" /\ di' = 1 /\ derrs' = {} /\ UNCHANGED dret
    /\ UNCHANGED cfgFile

\* a range loop that gives up at the first build error
DispatchBuildAbort ==
    /\ dpc = "loop" /\ di <= Len(dch)
    /\ LET n == buildChannelNotifier(dch[di].ch) IN
       IF n.err
       THEN /\ derrs' = derrs \cup {dch[di].idx}
            /\ dpc' = "done" /\ dret' = "error"
            /\ UNCHANGED <<di, dsent>>
       ELSE /\ dpc' = "sending"
            /\ dsent' = [dsent EXCEPT ![dch[di].idx] = @ + 1]
            /\ UNCHANGED <<di, derrs, dret>>
    /\ UNCHANGED <<cfgFile, dch, dcfg, dres>>

\* one turn of the range loop up to the Send call: a build error is collected
\* and the loop goes on; otherwise notifier.Send is entered
DispatchBuild ==
    /\ dpc = "loop" /\ di <= Len(dch)
    /\ LET n == buildChannelNotifier(dch[di].ch) IN
       IF n.err
       THEN /\ derrs' = derrs \cup {dch[di].idx}
            /\ di' = di + 1
            /\ UNCHANGED <<dpc, dsent, dret>>
       ELSE /\ dpc' = "sending"
            /\ dsent' = [dsent EXCEPT ![dch[di].idx] = @ + 1]
            /\ UNCHANGED <<di, derrs, dret>>
    /\ UNCHANGED <<cfgFile, dch, dcfg, dres>>

\* defaultSMTPDeadline = 30 * time.Second
defaultSMTPDeadline == 30000

\* the client a Send of this notifier waits on: CurlRequest.Execute calls
\* http.DefaultClient.Do; sendMailWithTimeout sets a 30 s deadline on the connection
SendDeadline(n) ==
    IF n.kind = "curl" THEN DefaultClient.Timeout ELSE defaultSMTPDeadline

\* Send returns what the far end answered: success, or a failure (refused
\* connection, status outside [200,300), SMTP error)
SendReply ==
    /\ dpc = "sending"
    /\ \E ok \in BOOLEAN :
          /\ derrs' = IF ok THEN derrs ELSE derrs \cup {dch[di].idx}
          /\ dres' = [dres EXCEPT ![dch[di].idx] = IF ok THEN "ok" ELSE "fail"]
    /\ di' = di + 1
    /\ dpc' = "loop"
    /\ UNCHANGED <<cfgFile, dch, dret, dcfg, dsent>>

\* the far end does not answer: Send returns an error when its deadline passes
SendTimeout ==
    /\ dpc = "sending"
    /\ SendDeadline(buildChannelNotifier(dch[di].ch)) > 0
    /\ derrs' = derrs \cup {dch[di].idx}
    /\ dres' = [dres EXCEPT ![dch[di].idx] = "timeout"]
    /\ di' = di + 1
    /\ dpc' = "loop"
    /\ UNCHANGED <<cfgFile, dch, dret, dcfg, dsent>>

\* after the range loop: the aggregated error, or nil
DispatchReturn ==
    /\ dpc = "loop" /\ di > Len(dch)
    /\ dret' = IF Cardinality(derrs) > 0 THEN "error" ELSE "nil"
    /\ dpc' = "done"
    /\ UNCHANGED <<cfgFile, dch, di, derrs, dcfg, dsent, dres>>

\* a step of dispatchEvent inside the read loop
InLoop(A) == A /\ UNCHANGED <<filterVars, pipeVars, unitVars>>

----------------------------------------------------------------------------
(* Log sources and cursor store: part_010 (CursorStore), part_011          *)
(* (IPLookup), part_012 (parsers), watcher.go (read loops)                 *)

\* sweep's --since flag defaults to one hour
defaultSweepSince == 3600000

\* const journalHistoryTolerance = time.Minute
journalHistoryTolerance == 60000

\* IPLookup.timeout, and the Timeout of the http.Client of its providers
ipLookupTimeout == 5000

\* a line of the log file or an entry of the journal, stamped when it is written;
\* kind "junk" is a line no pattern of the parser matches
LogRecord(kind, ts, id) == [kind |-> kind, ts |-> ts, id |-> id]

RecordKinds == {"junk", "fail"}

\* int64(len(line)): offsets count lines, every line being one unit long
LineLen(r) == 1

\* info.Size()
FileSize(f) == Len(f.lines)

\* parseAuthLogLine / parseJournalMessage: whether the line matches, and its event
parseLine(r) ==
    [ok |-> r.kind # "junk",
     event |-> [Type |-> EventLoginFailed, IP |-> "1.1.1.1", Port |-> 22,
                User |-> "root", Timestamp |-> r.ts]]

\* isPrivateIP
isPrivateIP(ip) == ip \in {"127.0.0.1", "10.0.0.1", "192.168.1.1"}

\* SourceState of a state file that does not exist
NoState == [exists |-> FALSE, JournalCursor |-> 0, FileOffset |-> 0]

\* CursorStore.Load: a missing file gives the zero state; the journal cursor is
\* the index of its record, 0 standing for the empty string
Load(d) ==
    IF d.exists THEN [JournalCursor |-> d.JournalCursor, FileOffset |-> d.FileOffset]
    ELSE [JournalCursor |-> 0, FileOffset |-> 0]

\* CursorStore.Save: os.WriteFile replaces the file with the state, or fails
Save(st, ok) ==
    IF ok THEN [exists |-> TRUE, JournalCursor |-> st.JournalCursor,
                FileOffset |-> st.FileOffset]
    ELSE disk

\* the outcomes of os.WriteFile
SaveOutcomes == BOOLEAN

\* the options a command is started with: watch, or sweep with its flags
RunOptions ==
    {[follow |-> TRUE, since |-> 0, notify |-> TRUE],
     [follow |-> FALSE, since |-> defaultSweepSince, notify |-> TRUE],
     [follow |-> FALSE, since |-> 0, notify |-> TRUE],
     [follow |-> FALSE, since |-> defaultSweepSince, notify |-> FALSE]}

\* the notify.json of the pipeline model: a webhook and a mail channel, both enabled
PipelineConfig ==
    [state |-> "json",
     channels |->
        <<[Enabled |-> TRUE, Type |-> "curl", Email |-> Nil,
           Curl |-> CurlCmd(<<"curl", "-X", "post", "-d", "{}", "http://sink">>, FALSE)],
          [Enabled |-> TRUE, Type |-> "email", Curl |-> Nil, Email |-> EmailOK]>>]

NoEvent == [id |-> 0, pos |-> 0, ts |-> 0]

\* history: Save has not been called in this run
NoCall == [id |-> 0, pos |-> -1, ts |-> 0]

\* the stream a saved position belongs to: the journal, or a file between truncations
Stream == IF src = "journal" THEN <<0, 0>> ELSE <<rd.inode, files[rd.inode].trunc>>

\* history of a Save call: which record the saved position reaches, in which run
Tag(upTo, ok) ==
    IF ok THEN [stream |-> Stream, upTo |-> upTo, run |-> nrun] ELSE diskTag

\* history of an event of this run; cut: the context was cancelled while a Send
\* of the event was out
Hist(e, fate) == [id |-> e.id, pos |-> e.pos, ts |-> e.ts, fate |-> fate, cut |-> FALSE]

\* the events of this run that were passed to the filter stack
FilteredRun == {rhist[i].id : i \in {j \in DOMAIN rhist :
                                        rhist[j].fate \in {"filter", "sending", "ok", "error"}}}

\* the event record of e as the parser builds it
EventOf(e) == [Type |-> EventLoginFailed, IP |-> "1.1.1.1", Port |-> 22,
               User |-> "root", Timestamp |-> e.ts]

\* journalctl's first record: --since T, --after-cursor C, --since now, or everything
JournalStart(o, cursor) ==
    IF ~o.follow /\ o.since > 0
    THEN Cardinality({i \in DOMAIN journal : journal[i].ts < clock - o.since})
    ELSE IF cursor # 0 THEN cursor
    ELSE IF o.follow THEN Len(journal)
    ELSE 0

\* shouldSkipHistoricalEvent
shouldSkipHistoricalEvent(start, ts) == ts < start - journalHistoryTolerance

\* the variables of the cursor store and of the source selection taken alone,
\* at rest while the pipeline runs
StoreIdle ==
    /\ sfile = << >> /\ sp = << >> /\ slen = 0 /\ sdone = << >> /\ sgot = << >>
    /\ sarg = << >> /\ sel = << >>

\* the variables of the notify commands, of one SMTP session and of the curl
\* parser taken alone, at rest
CliIdle == backup = << >> /\ cli = << >> /\ chist = << >>
MailIdle == smtp = << >> /\ wire = << >>
ParseIdle == logLine = << >> /\ logOut = << >>
CurlIdle == curlIn = << >> /\ curlOut = << >>

LookupIdle == look = << >> /\ lhist = << >>
ReaderIdle == logBytes = << >> /\ reader = << >>
AttemptIdle == attempt = << >>
BesidesCurlIdle == ParseIdle /\ LookupIdle /\ ReaderIdle /\ AttemptIdle
BesidesParseIdle == CurlIdle /\ LookupIdle /\ ReaderIdle /\ AttemptIdle
BesidesLookupIdle == CurlIdle /\ ParseIdle /\ ReaderIdle /\ AttemptIdle
BesidesReaderIdle == CurlIdle /\ ParseIdle /\ LookupIdle /\ AttemptIdle
BesidesAttemptIdle == CurlIdle /\ ParseIdle /\ LookupIdle /\ ReaderIdle
AloneIdle == CurlIdle /\ ParseIdle /\ LookupIdle /\ ReaderIdle /\ AttemptIdle

UnitIdle == StoreIdle /\ CliIdle /\ MailIdle /\ AloneIdle

\* no file was reopened
NotReopened == [inode |-> 0, trunc |-> 0]

PipelineInit ==
    /\ clock = 0 /\ journal = << >>
    /\ files = <<[lines |-> << >>, trunc |-> 0]>> /\ pathInode = 1
    /\ nchg = 0 /\ nrec = 0 /\ nrun = 0
    /\ disk = NoState /\ cancelled = FALSE
    /\ pc = "stopped" /\ ret = "none"
    /\ run = [follow |-> FALSE, since |-> 0, notify |-> FALSE, start |-> 0,
              cold |-> FALSE]
    /\ state = Load(NoState)
    /\ rd = [inode |-> 1] /\ offset = 0 /\ latest = 0 /\ jpos = 0
    /\ skipHistorical = FALSE /\ cur = NoEvent /\ ipCache = FALSE
    /\ rhist = << >> /\ handedEver = {} /\ lastCall = NoCall
    /\ diskTag = [stream |-> <<0, 0>>, upTo |-> 0, run |-> 0]
    /\ startTag = 0 /\ changedRun = FALSE /\ reopened = NotReopened

Init ==
    /\ src \in {"journal", "file"}
    /\ PipelineInit /\ UnitIdle
    /\ filter = newNotifyFilter(NotifyOnAll, 0, 0) /\ fhist = << >>
    /\ cfgFile = PipelineConfig
    /\ DispatchIdle

----------------------------------------------------------------------------
(* The environment: sshd and syslog write, logrotate rotates, time passes,  *)
(* the operator interrupts                                                  *)

\* a line is written to the journal, or to the file the log path names
AppendLine ==
    /\ nrec < MaxRecords
    /\ src = "file" => pathInode # 0
    /\ \E k \in RecordKinds :
          LET r == LogRecord(k, clock, nrec + 1) IN
          IF src = "journal"
          THEN journal' = Append(journal, r) /\ UNCHANGED files
          ELSE /\ files' = [files EXCEPT ![pathInode].lines = Append(@, r)]
               /\ UNCHANGED journal
    /\ nrec' = nrec + 1
    /\ UNCHANGED <<src, clock, pathInode, nchg, progVars, histVars, filterVars, dispVars>>
    /\ UNCHANGED unitVars

\* the clock moves on by more than the lookback of a sweep
Tick ==
    /\ clock < MaxTicks * (defaultSweepSince + 1)
    /\ clock' = clock + defaultSweepSince + 1
    /\ UNCHANGED <<src, journal, files, pathInode, nchg, nrec, progVars, histVars,
                   filterVars, dispVars>>
    /\ UNCHANGED unitVars

\* the log file is renamed or deleted: the path names nothing
RemoveLog ==
    /\ src = "file" /\ pathInode # 0 /\ nchg < MaxChanges
    /\ pathInode' = 0
    /\ nchg' = nchg + 1
    /\ changedRun' = (changedRun \/ pc # "stopped")
    /\ UNCHANGED reopened
    /\ UNCHANGED <<src, clock, journal, files, nrec, progVars, filterVars, dispVars,
                   rhist, handedEver, lastCall, diskTag, startTag>>
    /\ UNCHANGED unitVars

\* a new, empty log file is created at the path
CreateLog ==
    /\ src = "file" /\ pathInode = 0
    /\ files' = Append(files, [lines |-> << >>, trunc |-> 0])
    /\ pathInode' = Len(files) + 1
    /\ changedRun' = (changedRun \/ pc # "stopped")
    /\ UNCHANGED reopened
    /\ UNCHANGED <<src, clock, journal, nchg, nrec, progVars, filterVars, dispVars,
                   rhist, handedEver, lastCall, diskTag, startTag>>
    /\ UNCHANGED unitVars

\* the log file is truncated in place (copytruncate)
TruncateLog ==
    /\ src = "file" /\ pathInode # 0 /\ nchg < MaxChanges
    /\ files[pathInode].lines # << >>
    /\ files' = [files EXCEPT ![pathInode] = [lines |-> << >>, trunc |-> @.trunc + 1]]
    /\ nchg' = nchg + 1
    /\ changedRun' = (changedRun \/ pc # "stopped")
    /\ UNCHANGED reopened
    /\ UNCHANGED <<src, clock, journal, pathInode, nrec, progVars, filterVars, dispVars,
                   rhist, handedEver, lastCall, diskTag, startTag>>
    /\ UNCHANGED unitVars

\* by how much the wall clock is set back: the tolerance of the historical
\* skip, and one millisecond more
ClockSteps == {journalHistoryTolerance, journalHistoryTolerance + 1}

\* the wall clock is set back (a time synchronisation step, the operator):
\* journald stamps the records it receives from then on with the earlier time
StepBack ==
    /\ nchg < MaxChanges
    /\ nchg' = nchg + 1
    /\ \E d \in ClockSteps : clock' = clock - d
    /\ UNCHANGED <<src, journal, files, pathInode, nrec, progVars, histVars,
                   filterVars, dispVars>>
    /\ UNCHANGED unitVars

\* the interrupt signal (watch) or the 30 s deadline (sweep) cancels the context
Cancel ==
    /\ pc # "stopped" /\ ~cancelled
    /\ cancelled' = TRUE
    /\ rhist' = IF pc = "dispatch" /\ dpc = "sending"
                THEN [rhist EXCEPT ![Len(rhist)].cut = TRUE]
                ELSE rhist
    /\ UNCHANGED <<envVars, pc, ret, run, state, rd, offset, latest, jpos,
                   skipHistorical, cur, ipCache, nrun, disk, handedEver, lastCall,
                   diskTag, startTag, changedRun, reopened, filterVars, dispVars>>
    /\ UNCHANGED unitVars

----------------------------------------------------------------------------
(* RunWatch and RunSweep up to the read loop *)

\* sweepLogFileWithFilter's startOffset, followLogFileWithFilter's offset
StartOffset ==
    IF ~run.follow /\ run.since > 0 THEN 0 ELSE state.FileOffset

\* RunWatch / RunSweep: Load, determineSource, newNotifyFilter, and the entry of
\* runJournalWithFilter (journalctl started), followLogFileWithFilter or
\* sweepLogFileWithFilter
Start ==
    /\ pc = "stopped" /\ nrun < MaxRuns
    /\ src = "file" => pathInode # 0
    /\ \E o \in RunOptions :
          LET st == Load(disk) IN
          /\ run' = [follow |-> o.follow, since |-> o.since, notify |-> o.notify,
                     start |-> clock,
                     cold |-> (src = "journal" /\ o.follow /\ st.JournalCursor = 0)]
          /\ state' = st
          /\ IF src = "journal"
             THEN /\ skipHistorical' = (o.follow /\ st.JournalCursor = 0 /\ o.since <= 0)
                  /\ jpos' = JournalStart(o, st.JournalCursor)
                  /\ pc' = "jscan"
                  /\ UNCHANGED latest
             ELSE /\ pc' = "open"
                  /\ latest' = st.FileOffset
                  /\ UNCHANGED <<skipHistorical, jpos>>
    /\ filter' = newNotifyFilter(NotifyOnAll, 0, 0)
    /\ cancelled' = FALSE /\ ipCache' = FALSE /\ ret' = "none"
    /\ nrun' = nrun + 1
    /\ cur' = NoEvent
    /\ rhist' = << >> /\ lastCall' = NoCall /\ changedRun' = FALSE
    /\ reopened' = NotReopened
    /\ startTag' = IF disk.exists THEN diskTag.upTo ELSE 0
    /\ UNCHANGED <<envVars, rd, offset, disk, handedEver, diskTag, fhist, dispVars>>
    /\ UNCHANGED unitVars

----------------------------------------------------------------------------
(* What the loops do with one parsed event e = [id, pos, ts]; every operator *)
(* sets pc, state, disk, latest, skipHistorical, cur, filter, the dispatcher *)
(* variables and the history                                                 *)

\* the event is dropped or only printed; the position is saved when save is set
Dropped(e, fate, f, save, ok, back) ==
    /\ filter' = f
    /\ pc' = back
    /\ cur' = NoEvent
    /\ rhist' = Append(rhist, Hist(e, fate))
    /\ IF save
       THEN LET st == IF src = "journal" THEN [state EXCEPT !.JournalCursor = e.pos]
                      ELSE [state EXCEPT !.FileOffset = e.pos]
            IN /\ state' = st
               /\ disk' = Save(st, ok)
               /\ diskTag' = Tag(e.id, ok)
               /\ lastCall' = e
       ELSE UNCHANGED <<state, disk, diskTag, lastCall>>
    /\ UNCHANGED <<handedEver, dispVars>>

\* dispatchEvent(event) is called
Dispatched(e, f) ==
    /\ filter' = f
    /\ pc' = "dispatch"
    /\ cur' = e
    /\ rhist' = Append(rhist, Hist(e, "sending"))
    /\ handedEver' = handedEver \cup {e.id}
    /\ DispatchEnter
    /\ UNCHANGED <<cfgFile, state, disk, diskTag, lastCall>>

\* a process closure that saves the position before it calls dispatchEvent
HandleFollowSaveFirst(e, ok) ==
    LET r == shouldNotify(filter, EventOf(e))
        st == [state EXCEPT !.FileOffset = e.pos]
    IN
    /\ IF r.out # "pass"
       THEN Dropped(e, "filter", r.filter, TRUE, ok, "read")
       ELSE /\ filter' = r.filter
            /\ pc' = "dispatch"
            /\ cur' = e
            /\ rhist' = Append(rhist, Hist(e, "sending"))
            /\ handedEver' = handedEver \cup {e.id}
            /\ DispatchEnter
            /\ state' = st
            /\ disk' = Save(st, ok)
            /\ diskTag' = Tag(e.id, ok)
            /\ lastCall' = e
            /\ UNCHANGED cfgFile
    /\ UNCHANGED <<latest, skipHistorical>>

\* followLogFileWithFilter's process closure, up to the call of dispatchEvent
HandleFollow(e, ok) ==
    LET r == shouldNotify(filter, EventOf(e)) IN
    /\ IF r.out # "pass"
       THEN Dropped(e, "filter", r.filter, TRUE, ok, "read")
       ELSE Dispatched(e, r.filter)
    /\ UNCHANGED <<latest, skipHistorical>>

\* a sweep closure that runs the filter stack whether or not it notifies
HandleSweepFilterSilent(e) ==
    /\ latest' = IF e.pos > latest THEN e.pos ELSE latest
    /\ IF run.since > 0 /\ e.ts < run.start - run.since
       THEN Dropped(e, "cutoff", filter, FALSE, FALSE, "read")
       ELSE LET r == shouldNotify(filter, EventOf(e)) IN
            IF r.out = "pass" /\ run.notify
            THEN Dispatched(e, r.filter)
            ELSE Dropped(e, IF run.notify THEN "filter" ELSE "silent", r.filter,
                         FALSE, FALSE, "read")
    /\ UNCHANGED skipHistorical

\* sweepLogFileWithFilter's process closure, up to the call of dispatchEvent
HandleSweep(e) ==
    /\ latest' = IF e.pos > latest THEN e.pos ELSE latest
    /\ IF run.since > 0 /\ e.ts < run.start - run.since
       THEN Dropped(e, "cutoff", filter, FALSE, FALSE, "read")
       ELSE IF run.notify
            THEN LET r == shouldNotify(filter, EventOf(e)) IN
                 IF r.out = "pass"
                 THEN Dispatched(e, r.filter)
                 ELSE Dropped(e, "filter", r.filter, FALSE, FALSE, "read")
            ELSE Dropped(e, "silent", filter, FALSE, FALSE, "read")
    /\ UNCHANGED skipHistorical

\* a journal loop body that goes on skipping after the first current event
HandleJournalKeepSkipping(e, ok) ==
    /\ IF skipHistorical /\ shouldSkipHistoricalEvent(run.start, e.ts)
       THEN /\ skipHistorical' = TRUE
            /\ Dropped(e, "historical", filter, TRUE, ok, "jscan")
       ELSE /\ skipHistorical' = skipHistorical
            /\ IF run.notify
               THEN LET r == shouldNotify(filter, EventOf(e)) IN
                    IF r.out = "pass"
                    THEN Dispatched(e, r.filter)
                    ELSE Dropped(e, "filter", r.filter, TRUE, ok, "jscan")
               ELSE Dropped(e, "silent", filter, TRUE, ok, "jscan")
    /\ UNCHANGED latest

\* a journal loop body that prints an event of a silent sweep and goes on
\* without saving its cursor
HandleJournalSilentNoSave(e, ok) ==
    /\ IF skipHistorical /\ shouldSkipHistoricalEvent(run.start, e.ts)
       THEN /\ skipHistorical' = TRUE
            /\ Dropped(e, "historical", filter, TRUE, ok, "jscan")
       ELSE /\ skipHistorical' = FALSE
            /\ IF run.notify
               THEN LET r == shouldNotify(filter, EventOf(e)) IN
                    IF r.out = "pass"
                    THEN Dispatched(e, r.filter)
                    ELSE Dropped(e, "filter", r.filter, TRUE, ok, "jscan")
               ELSE Dropped(e, "silent", filter, FALSE, ok, "jscan")
    /\ UNCHANGED latest

\* runJournalWithFilter's loop body after parsing, up to the call of dispatchEvent
HandleJournal(e, ok) ==
    /\ IF skipHistorical /\ shouldSkipHistoricalEvent(run.start, e.ts)
       THEN /\ skipHistorical' = TRUE
            /\ Dropped(e, "historical", filter, TRUE, ok, "jscan")
       ELSE /\ skipHistorical' = FALSE
            /\ IF run.notify
               THEN LET r == shouldNotify(filter, EventOf(e)) IN
                    IF r.out = "pass"
                    THEN Dispatched(e, r.filter)
                    ELSE Dropped(e, "filter", r.filter, TRUE, ok, "jscan")
               ELSE Dropped(e, "silent", filter, TRUE, ok, "jscan")
    /\ UNCHANGED latest

Handle(e, ok) ==
    IF src = "journal" THEN HandleJournal(e, ok)
    ELSE IF run.follow THEN HandleFollow(e, ok)
    ELSE HandleSweep(e)

\* a parsed line: LookupIPLocation asks the providers unless the IP is private
\* or cached, then the event is handled
Parsed(e) ==
    IF isPrivateIP(EventOf(e).IP) \/ ipCache
    THEN /\ (\E ok \in SaveOutcomes : Handle(e, ok))
         /\ UNCHANGED ipCache
    ELSE /\ pc' = "lookup"
         /\ cur' = e
         /\ UNCHANGED <<ipCache, state, disk, latest, skipHistorical, filter, rhist,
                        handedEver, lastCall, diskTag, dispVars>>

----------------------------------------------------------------------------
(* The file loops: readLogFile, reopenIfRotated, followLogFileWithFilter,   *)
(* sweepLogFileWithFilter                                                   *)

\* readLogFile up to its loop: Open, Stat, the two clamps, Seek.  A failed Open
\* returns the error: the sweep returns it, the follow loop logs it and sleeps
OpenLog ==
    /\ pc = "open"
    /\ IF pathInode = 0
       THEN /\ pc' = IF run.follow THEN "retry" ELSE "stopped"
            /\ ret' = IF run.follow THEN ret ELSE "open error"
            /\ UNCHANGED <<rd, offset>>
       ELSE LET size == FileSize(files[pathInode])
                o1 == IF StartOffset = 0 /\ run.follow THEN size ELSE StartOffset
                o2 == IF o1 > size THEN size ELSE o1
            IN /\ rd' = [inode |-> pathInode]
               /\ offset' = o2
               /\ pc' = "read"
               /\ UNCHANGED ret
    /\ reopened' = NotReopened
    /\ UNCHANGED <<envVars, cancelled, run, state, latest, jpos, skipHistorical, cur,
                   ipCache, nrun, disk, rhist, handedEver, lastCall, diskTag, startTag,
                   changedRun, filterVars, dispVars>>
    /\ UNCHANGED unitVars

\* followLogFileWithFilter after a failed readLogFile: time.Sleep(poll); continue
RetrySleep ==
    /\ pc = "retry"
    /\ pc' = "open"
    /\ UNCHANGED <<envVars, cancelled, ret, run, state, rd, offset, latest, jpos,
                   skipHistorical, cur, ipCache, nrun, disk, histVars, filterVars,
                   dispVars>>
    /\ UNCHANGED unitVars

\* readLogFile's loop finds the context done: follow returns nil, sweep the error
ReadCancelled ==
    /\ pc = "read" /\ cancelled
    /\ pc' = "stopped"
    /\ ret' = IF run.follow THEN "nil" ELSE "cancelled"
    /\ UNCHANGED <<envVars, cancelled, run, state, rd, offset, latest, jpos,
                   skipHistorical, cur, ipCache, nrun, disk, histVars, filterVars,
                   dispVars>>
    /\ UNCHANGED unitVars

\* readLogFile's loop reads a line, parses it and hands an event to the closure
ReadLine ==
    /\ pc = "read" /\ ~cancelled
    /\ offset < FileSize(files[rd.inode])
    /\ LET r == files[rd.inode].lines[offset + 1]
           newOffset == offset + LineLen(r)
       IN /\ offset' = newOffset
          /\ IF parseLine(r).ok
             THEN Parsed([id |-> r.id, pos |-> newOffset, ts |-> r.ts])
             ELSE UNCHANGED <<pc, cur, ipCache, state, disk, latest, skipHistorical,
                              filter, rhist, handedEver, lastCall, diskTag, dispVars>>
    /\ UNCHANGED <<envVars, cancelled, ret, run, rd, jpos, nrun, startTag, changedRun, reopened,
                   fhist>>
    /\ UNCHANGED unitVars

\* readLogFile's loop is at the end of the file: the follow loop sleeps a poll
\* interval; the sweep returns, and sweepLogFileWithFilter saves latest
ReadEOF ==
    /\ pc = "read" /\ ~cancelled
    /\ offset >= FileSize(files[rd.inode])
    /\ IF run.follow
       THEN /\ pc' = "eofSleep"
            /\ UNCHANGED <<ret, state, disk, diskTag, lastCall, latest>>
       ELSE \E ok \in SaveOutcomes :
               LET l2 == IF offset > latest THEN offset ELSE latest
                   st == [state EXCEPT !.FileOffset = l2]
                   lines == files[rd.inode].lines
                   upTo == IF l2 = offset /\ offset > 0 /\ offset <= Len(lines)
                           THEN lines[offset].id ELSE diskTag.upTo
               IN /\ latest' = l2
                  /\ state' = st
                  /\ disk' = Save(st, ok)
                  /\ diskTag' = Tag(upTo, ok)
                  /\ lastCall' = [id |-> 0, pos |-> l2, ts |-> 0]
                  /\ pc' = "stopped"
                  /\ ret' = IF ok THEN "nil" ELSE "save error"
    /\ UNCHANGED <<envVars, cancelled, run, rd, offset, jpos, skipHistorical, cur,
                   ipCache, nrun, rhist, handedEver, startTag, changedRun, reopened, filterVars,
                   dispVars>>
    /\ UNCHANGED unitVars

\* ReadString fails with an error other than EOF: readLogFile returns it; the
\* sweep returns it, the follow loop logs it and sleeps
ReadFails ==
    /\ pc = "read" /\ ~cancelled
    /\ nchg < MaxChanges
    /\ nchg' = nchg + 1
    /\ pc' = IF run.follow THEN "retry" ELSE "stopped"
    /\ ret' = IF run.follow THEN ret ELSE "read error"
    /\ UNCHANGED <<src, clock, journal, files, pathInode, nrec, cancelled, run, state,
                   rd, offset, latest, jpos, skipHistorical, cur, ipCache, nrun, disk,
                   histVars, filterVars, dispVars>>
    /\ UNCHANGED unitVars

\* a reopenIfRotated that opens the new file and seeks to the old offset
PollReopenKeepOffset ==
    /\ pc = "eofSleep"
    /\ pc' = "read"
    /\ IF pathInode = 0
       THEN UNCHANGED <<rd, offset, reopened>>
       ELSE IF rd.inode = pathInode /\ FileSize(files[pathInode]) >= offset
            THEN UNCHANGED <<rd, offset, reopened>>
            ELSE /\ rd' = [inode |-> pathInode]
                 /\ offset' = IF offset > FileSize(files[pathInode])
                              THEN FileSize(files[pathInode]) ELSE offset
                 /\ reopened' = [inode |-> pathInode, trunc |-> files[pathInode].trunc]
    /\ UNCHANGED <<envVars, cancelled, ret, run, state, latest, jpos, skipHistorical,
                   cur, ipCache, nrun, disk, rhist, handedEver, lastCall, diskTag,
                   startTag, changedRun, filterVars, dispVars>>
    /\ UNCHANGED unitVars

\* after the sleep at end of file: reopenIfRotated, then the loop goes on
PollReopen ==
    /\ pc = "eofSleep"
    /\ pc' = "read"
    /\ IF pathInode = 0
       THEN UNCHANGED <<rd, offset, reopened>>
       ELSE IF rd.inode = pathInode /\ FileSize(files[pathInode]) >= offset
            THEN UNCHANGED <<rd, offset, reopened>>
            ELSE /\ rd' = [inode |-> pathInode] /\ offset' = 0
                 /\ reopened' = [inode |-> pathInode, trunc |-> files[pathInode].trunc]
    /\ UNCHANGED <<envVars, cancelled, ret, run, state, latest, jpos, skipHistorical,
                   cur, ipCache, nrun, disk, rhist, handedEver, lastCall, diskTag,
                   startTag, changedRun, filterVars, dispVars>>
    /\ UNCHANGED unitVars

----------------------------------------------------------------------------
(* The journal loop: runJournalWithFilter *)

\* a journal loop that saves the cursor of a line it cannot use
JScanLineSaveSkipped ==
    /\ pc = "jscan" /\ ~cancelled
    /\ jpos < Len(journal)
    /\ LET r == journal[jpos + 1] IN
       /\ jpos' = jpos + 1
       /\ IF parseLine(r).ok
          THEN Parsed([id |-> r.id, pos |-> jpos + 1, ts |-> r.ts])
          ELSE /\ state' = [state EXCEPT !.JournalCursor = jpos + 1]
               /\ disk' = Save(state', TRUE)
               /\ diskTag' = Tag(r.id, TRUE)
               /\ lastCall' = [id |-> r.id, pos |-> jpos + 1, ts |-> r.ts]
               /\ UNCHANGED <<pc, cur, ipCache, latest, skipHistorical, filter, rhist,
                              handedEver, dispVars>>
    /\ UNCHANGED <<envVars, cancelled, ret, run, rd, offset, nrun, startTag,
                   changedRun, reopened, fhist>>
    /\ UNCHANGED unitVars

\* scanner.Scan returns a line of journalctl; the context is not done
JScanLine ==
    /\ pc = "jscan" /\ ~cancelled
    /\ jpos < Len(journal)
    /\ LET r == journal[jpos + 1] IN
       /\ jpos' = jpos + 1
       /\ IF parseLine(r).ok
          THEN Parsed([id |-> r.id, pos |-> jpos + 1, ts |-> r.ts])
          ELSE UNCHANGED <<pc, cur, ipCache, state, disk, latest, skipHistorical,
                           filter, rhist, handedEver, lastCall, diskTag, dispVars>>
    /\ UNCHANGED <<envVars, cancelled, ret, run, rd, offset, nrun, startTag,
                   changedRun, reopened, fhist>>
    /\ UNCHANGED unitVars

\* a sweep's journalctl has printed everything and exits: return cmd.Wait()
JScanEOF ==
    /\ pc = "jscan" /\ ~cancelled
    /\ ~run.follow /\ jpos >= Len(journal)
    /\ pc' = "stopped"
    /\ ret' = "nil"
    /\ UNCHANGED <<envVars, cancelled, run, state, rd, offset, latest, jpos,
                   skipHistorical, cur, ipCache, nrun, disk, histVars, filterVars,
                   dispVars>>
    /\ UNCHANGED unitVars

\* the context is done and journalctl is killed: Scan returns a line that was
\* already in the pipe and the loop returns nil, or it returns false and the
\* exit status of journalctl comes back as an error
JScanCancelled ==
    /\ pc = "jscan" /\ cancelled
    /\ pc' = "stopped"
    /\ \/ jpos < Len(journal) /\ ret' = "nil"
       \/ ret' = "journalctl exit"
    /\ UNCHANGED <<envVars, cancelled, run, state, rd, offset, latest, jpos,
                   skipHistorical, cur, ipCache, nrun, disk, histVars, filterVars,
                   dispVars>>
    /\ UNCHANGED unitVars

\* journalctl exits by itself or its pipe fails (journald restarted, journalctl
\* killed): Scan returns false and the loop is left; the watch returns nil when
\* journalctl exited with status 0 and the error otherwise, the sweep the error
JournalctlExits ==
    /\ pc = "jscan" /\ ~cancelled
    /\ nchg < MaxChanges
    /\ nchg' = nchg + 1
    /\ pc' = "stopped"
    /\ \/ ret' = "journalctl exit"
       \/ run.follow /\ ret' = "nil"
    /\ UNCHANGED <<src, clock, journal, files, pathInode, nrec, cancelled, run, state,
                   rd, offset, latest, jpos, skipHistorical, cur, ipCache, nrun, disk,
                   histVars, filterVars, dispVars>>
    /\ UNCHANGED unitVars

----------------------------------------------------------------------------
(* The IP lookup of the parser, and the return of dispatchEvent *)

\* a provider answers (with a location or an error): the result is cached
LookupReply ==
    /\ pc = "lookup"
    /\ ipCache' = TRUE
    /\ \E ok \in SaveOutcomes : Handle(cur, ok)
    /\ UNCHANGED <<envVars, cancelled, ret, run, rd, offset, jpos, nrun, startTag,
                   changedRun, reopened, fhist>>
    /\ UNCHANGED unitVars

\* no provider answers: the lookup's context expires and the empty result is cached
LookupTimeout ==
    /\ pc = "lookup"
    /\ ipLookupTimeout > 0
    /\ ipCache' = TRUE
    /\ \E ok \in SaveOutcomes : Handle(cur, ok)
    /\ UNCHANGED <<envVars, cancelled, ret, run, rd, offset, jpos, nrun, startTag,
                   changedRun, reopened, fhist>>
    /\ UNCHANGED unitVars

\* whether the loop saves the position after each event
SavesPerEvent == src = "journal" \/ run.follow

\* an AfterDispatch that saves while a Send is still out
AfterDispatchEarly ==
    /\ pc = "dispatch" /\ dpc \in {"done", "sending"}
    /\ pc' = IF src = "journal" THEN "jscan" ELSE "read"
    /\ rhist' = [rhist EXCEPT ![Len(rhist)].fate = IF dret = "nil" THEN "ok" ELSE "error"]
    /\ cur' = NoEvent
    /\ IF SavesPerEvent
       THEN \E ok \in SaveOutcomes :
               LET st == IF src = "journal" THEN [state EXCEPT !.JournalCursor = cur.pos]
                         ELSE [state EXCEPT !.FileOffset = cur.pos]
               IN /\ state' = st
                  /\ disk' = Save(st, ok)
                  /\ diskTag' = Tag(cur.id, ok)
                  /\ lastCall' = cur
       ELSE UNCHANGED <<state, disk, diskTag, lastCall>>
    /\ dpc' = "idle" /\ dch' = << >> /\ di' = 0 /\ derrs' = {} /\ dret' = "nil"
    /\ dcfg' = << >> /\ dsent' = << >> /\ dres' = << >>
    /\ UNCHANGED <<envVars, cancelled, ret, run, rd, offset, latest, jpos,
                   skipHistorical, ipCache, nrun, handedEver, startTag, changedRun, reopened,
                   filterVars, cfgFile>>
    /\ UNCHANGED unitVars

\* an AfterDispatch that keeps the position back when a channel failed
AfterDispatchHoldOnError ==
    /\ pc = "dispatch" /\ dpc = "done"
    /\ pc' = IF src = "journal" THEN "jscan" ELSE "read"
    /\ rhist' = [rhist EXCEPT ![Len(rhist)].fate = IF dret = "nil" THEN "ok" ELSE "error"]
    /\ cur' = NoEvent
    /\ IF SavesPerEvent /\ dret = "nil"
       THEN \E ok \in SaveOutcomes :
               LET st == IF src = "journal" THEN [state EXCEPT !.JournalCursor = cur.pos]
                         ELSE [state EXCEPT !.FileOffset = cur.pos]
               IN /\ state' = st
                  /\ disk' = Save(st, ok)
                  /\ diskTag' = Tag(cur.id, ok)
                  /\ lastCall' = cur
       ELSE UNCHANGED <<state, disk, diskTag, lastCall>>
    /\ dpc' = "idle" /\ dch' = << >> /\ di' = 0 /\ derrs' = {} /\ dret' = "nil"
    /\ dcfg' = << >> /\ dsent' = << >> /\ dres' = << >>
    /\ UNCHANGED <<envVars, cancelled, ret, run, rd, offset, latest, jpos,
                   skipHistorical, ipCache, nrun, handedEver, startTag, changedRun, reopened,
                   filterVars, cfgFile>>
    /\ UNCHANGED unitVars

\* dispatchEvent has returned: its error is only logged, the event is printed,
\* and the journal loop and the follow closure save the event's position
AfterDispatch ==
    /\ pc = "dispatch" /\ dpc = "done"
    /\ pc' = IF src = "journal" THEN "jscan" ELSE "read"
    /\ rhist' = [rhist EXCEPT ![Len(rhist)].fate = IF dret = "nil" THEN "ok" ELSE "error"]
    /\ cur' = NoEvent
    /\ IF SavesPerEvent
       THEN \E ok \in SaveOutcomes :
               LET st == IF src = "journal" THEN [state EXCEPT !.JournalCursor = cur.pos]
                         ELSE [state EXCEPT !.FileOffset = cur.pos]
               IN /\ state' = st
                  /\ disk' = Save(st, ok)
                  /\ diskTag' = Tag(cur.id, ok)
                  /\ lastCall' = cur
       ELSE UNCHANGED <<state, disk, diskTag, lastCall>>
    /\ dpc' = "idle" /\ dch' = << >> /\ di' = 0 /\ derrs' = {} /\ dret' = "nil"
    /\ dcfg' = << >> /\ dsent' = << >> /\ dres' = << >>
    /\ UNCHANGED <<envVars, cancelled, ret, run, rd, offset, latest, jpos,
                   skipHistorical, ipCache, nrun, handedEver, startTag, changedRun, reopened,
                   filterVars, cfgFile>>
    /\ UNCHANGED unitVars

----------------------------------------------------------------------------
(* The pipeline *)

\* the steps the process takes by itself, timeouts included
LocalStep ==
    \/ OpenLog \/ RetrySleep \/ ReadCancelled \/ ReadLine \/ ReadEOF \/ ReadFails
    \/ PollReopen \/ JScanLine \/ JScanEOF \/ JScanCancelled \/ LookupTimeout
    \/ InLoop(DispatchLoad) \/ InLoop(DispatchBuild) \/ InLoop(SendTimeout)
    \/ InLoop(DispatchReturn) \/ AfterDispatch

\* the steps that need an answer from a remote endpoint
RemoteStep == LookupReply \/ InLoop(SendReply)

Next ==
    \/ AppendLine
    \/ Tick
    \/ RemoveLog
    \/ CreateLog
    \/ TruncateLog
    \/ Cancel
    \/ Start
    \/ OpenLog
    \/ RetrySleep
    \/ ReadCancelled
    \/ ReadLine
    \/ ReadEOF
    \/ ReadFails
    \/ PollReopen
    \/ JScanLine
    \/ JScanEOF
    \/ JScanCancelled
    \/ JournalctlExits
    \/ LookupReply
    \/ LookupTimeout
    \/ InLoop(DispatchLoad)
    \/ InLoop(DispatchBuild)
    \/ InLoop(SendReply)
    \/ InLoop(SendTimeout)
    \/ InLoop(DispatchReturn)
    \/ AfterDispatch

Spec == Init /\ [][Next]_vars

\* the process keeps running and every timeout that is armed fires, but no
\* remote endpoint has to answer
SpecOutage == Init /\ [][Next]_vars /\ WF_vars(LocalStep)

\* as before, and every remote endpoint answers
SpecAnswered == Init /\ [][Next]_vars /\ WF_vars(LocalStep) /\ WF_vars(RemoteStep)

----------------------------------------------------------------------------
(* The pipeline with a notify.json that holds a channel ValidateConfig      *)
(* rejects                                                                  *)

\* a mail channel with port 0
BrokenChannel(enabled) ==
    [Enabled |-> enabled, Type |-> "email", Curl |-> Nil,
     Email |-> [EmailOK EXCEPT !.Port = 0]]

\* the working webhook next to the rejected channel, in both orders
BrokenConfigs ==
    UNION {{[state |-> "json",
             channels |-> <<PipelineConfig.channels[1], BrokenChannel(en)>>],
            [state |-> "json",
             channels |-> <<BrokenChannel(en), PipelineConfig.channels[1]>>]}
           : en \in BOOLEAN}

InitBroken ==
    /\ src \in {"journal", "file"}
    /\ PipelineInit /\ UnitIdle
    /\ filter = newNotifyFilter(NotifyOnAll, 0, 0) /\ fhist = << >>
    /\ cfgFile \in BrokenConfigs \cup {PipelineConfig}
    /\ DispatchIdle

SpecBroken == InitBroken /\ [][Next]_vars

----------------------------------------------------------------------------
(* The journal loop on a machine whose wall clock may be set back *)

InitSkew ==
    /\ src = "journal"
    /\ PipelineInit /\ UnitIdle
    /\ filter = newNotifyFilter(NotifyOnAll, 0, 0) /\ fhist = << >>
    /\ cfgFile = PipelineConfig
    /\ DispatchIdle

NextSkew ==
    \/ AppendLine
    \/ Tick
    \/ StepBack
    \/ Cancel
    \/ Start
    \/ JScanLine
    \/ JScanEOF
    \/ JScanCancelled
    \/ LookupReply
    \/ LookupTimeout
    \/ InLoop(DispatchLoad)
    \/ InLoop(DispatchBuild)
    \/ InLoop(SendReply)
    \/ InLoop(SendTimeout)
    \/ InLoop(DispatchReturn)
    \/ AfterDispatch

SpecSkew == InitSkew /\ [][NextSkew]_vars

----------------------------------------------------------------------------
(* The cursor store on its own (part_010): the bytes of the state file, the  *)
(* steps of os.WriteFile, and the commands that load and save it            *)

\* number of records the log source comes to hold in the store model
MaxStoreRecords == 2

\* number of times each command is started in the store model
MaxStoreStarts == 2

\* the key of the file_offsets map: the path of the authentication log
StorePath == "/var/log/auth.log"

\* a string, as the pieces it is made of: a journald cursor is one piece that
\* names a record, the empty string has none
CursorOf(n) == IF n = 0 THEN << >> ELSE <<[t |-> "text", n |-> n]>>

\* the record a cursor string names, 0 when it is no cursor journald gave out
CursorPos(c) == IF Len(c) = 1 /\ c[1].t = "text" THEN c[1].n ELSE 0

\* map[string]int64: nil, or the map m
NilOffsets == [nil |-> TRUE, m |-> EmptyMap]
Offsets(m) == [nil |-> FALSE, m |-> m]

\* SourceState
SourceState(c, o) == [JournalCursor |-> c, FileOffsets |-> o]

\* &SourceState{FileOffsets: make(map[string]int64)}
EmptyState == SourceState(<< >>, Offsets(EmptyMap))

\* the offset the state holds for the log path, 0 when it holds none
OffsetOf(st) ==
    IF StorePath \in DOMAIN st.FileOffsets.m THEN st.FileOffsets.m[StorePath] ELSE 0

\* json.MarshalIndent of a SourceState: both fields are omitempty, so an empty
\* cursor and an empty or nil map leave no member
MarshalIndent(st) ==
    <<[t |-> "{"]>>
    \o (IF st.JournalCursor # << >>
        THEN <<[t |-> "journal_cursor", s |-> st.JournalCursor]>> ELSE << >>)
    \o (IF DOMAIN st.FileOffsets.m # {}
        THEN <<[t |-> "file_offsets", m |-> st.FileOffsets.m]>> ELSE << >>)
    \o <<[t |-> "}"]>>

\* the members of a JSON object decoded into st one after the other: a later
\* journal_cursor replaces the value, a later file_offsets is merged into the map
RECURSIVE DecodeMembers(_, _, _)
DecodeMembers(data, i, st) ==
    IF i >= Len(data) THEN st
    ELSE IF data[i].t = "journal_cursor"
         THEN DecodeMembers(data, i + 1, [st EXCEPT !.JournalCursor = data[i].s])
         ELSE LET old == st.FileOffsets.m
                  new == data[i].m
                  merged == [k \in DOMAIN old \cup DOMAIN new |->
                                IF k \in DOMAIN new THEN new[k] ELSE old[k]]
              IN DecodeMembers(data, i + 1, [st EXCEPT !.FileOffsets = Offsets(merged)])

\* json.Unmarshal(data, state) on a zero SourceState: an error unless the bytes
\* are one JSON object, and then the state with the members the object has
Unmarshal(data) ==
    IF /\ Len(data) >= 2
       /\ data[1].t = "{"
       /\ data[Len(data)].t = "}"
       /\ \A i \in 2..(Len(data) - 1) : data[i].t \in {"journal_cursor", "file_offsets"}
    THEN [err |-> FALSE, st |-> DecodeMembers(data, 2, SourceState(<< >>, NilOffsets))]
    ELSE [err |-> TRUE, st |-> SourceState(<< >>, NilOffsets)]

\* a Load that leaves a nil map as it is
CursorStoreLoadKeepNil(f) ==
    IF ~f.exists THEN EmptyState
    ELSE IF Len(f.bytes) = 0 THEN EmptyState
    ELSE LET u == Unmarshal(f.bytes)
         IN IF u.err THEN [u.st EXCEPT !.JournalCursor = f.bytes] ELSE u.st

\* CursorStore.Load: a missing or empty file is the empty state; bytes that do
\* not unmarshal are taken as a legacy cursor string; a nil map is made
CursorStoreLoad(f) ==
    IF ~f.exists THEN EmptyState
    ELSE IF Len(f.bytes) = 0 THEN EmptyState
    ELSE LET u == Unmarshal(f.bytes)
             st == IF u.err THEN [u.st EXCEPT !.JournalCursor = f.bytes] ELSE u.st
         IN IF st.FileOffsets.nil THEN [st EXCEPT !.FileOffsets = Offsets(EmptyMap)]
            ELSE st

\* CursorStore.Save up to os.WriteFile: the state as Save leaves it to its caller
SaveNormal(st) ==
    IF st.FileOffsets.nil THEN [st EXCEPT !.FileOffsets = Offsets(EmptyMap)] ELSE st

\* write(2) of data at offset 0 of a file that holds old
WriteAt0(data, old) ==
    IF Len(data) >= Len(old) THEN data
    ELSE data \o SubSeq(old, Len(data) + 1, Len(old))

NoFile == [exists |-> FALSE, bytes |-> << >>]

\* the commands that share the state file: the watch daemon and the cron sweep
Procs == {"watch", "sweep"}

ProcOff == [pc |-> "off", src |-> "journal", mem |-> EmptyState, at |-> 0,
            latest |-> 0, data |-> << >>, starts |-> 0]

\* the states a Load may return at this moment: the last one saved in full, or
\* one that a Save is writing
LoadsAllowed == {sdone.st} \cup {sp[q].mem : q \in {r \in Procs : sp[r].pc = "writing"}}

InitStore ==
    /\ src = "journal" /\ PipelineInit
    /\ CliIdle /\ MailIdle /\ AloneIdle
    /\ filter = newNotifyFilter(NotifyOnAll, 0, 0) /\ fhist = << >>
    /\ cfgFile = PipelineConfig
    /\ DispatchIdle
    /\ sfile \in {NoFile, [exists |-> TRUE, bytes |-> CursorOf(1)]}
    /\ sp = [p \in Procs |-> ProcOff]
    /\ slen = 1
    /\ sdone = [st |-> CursorStoreLoad(sfile), by |-> {}]
    /\ sgot = [st |-> EmptyState, ok |-> TRUE, during |-> FALSE]
    /\ sarg = << >> /\ sel = << >>

\* sshd logs one more record
StoreAppend ==
    /\ slen < MaxStoreRecords
    /\ slen' = slen + 1
    /\ UNCHANGED <<sfile, sp, sdone, sgot, sarg, sel, filterVars, dispVars, pipeVars,
                   cliVars, mailVars, aloneVars>>

\* RunWatch / RunSweep: store.Load, then the loop of the source is entered.  A
\* watch on the journal starts after the saved cursor (journalctl fails on a
\* cursor it did not give out) or at the end, a sweep on the journal at the
\* start of its --since window; a watch on the file starts at the saved offset
\* or at the end, a sweep on the file at offset 0 with latest the saved offset
StoreStart(p) ==
    /\ sp[p].pc = "off" /\ sp[p].starts < MaxStoreStarts
    /\ LET st == CursorStoreLoad(sfile) IN
       /\ sgot' = [st |-> st, ok |-> st \in LoadsAllowed,
                   during |-> \E q \in Procs : sp[q].pc = "writing"]
       /\ \E s \in {"journal", "file"}, w \in 0..slen :
             LET c == st.JournalCursor
                 o == IF OffsetOf(st) > slen THEN slen ELSE OffsetOf(st)
                 fails == s = "journal" /\ p = "watch" /\ c # << >> /\ CursorPos(c) = 0
                 at == IF s = "journal"
                       THEN IF p = "sweep" THEN w
                            ELSE IF c # << >> THEN CursorPos(c) ELSE slen
                       ELSE IF p = "sweep" THEN 0
                            ELSE IF o = 0 THEN slen ELSE o
             IN sp' = [sp EXCEPT ![p] = [pc |-> IF fails THEN "off" ELSE "run",
                                         src |-> s, mem |-> st, at |-> at,
                                         latest |-> OffsetOf(st), data |-> << >>,
                                         starts |-> @.starts + 1]]
    /\ UNCHANGED <<sfile, slen, sdone, sarg, sel, filterVars, dispVars, pipeVars,
                   cliVars, mailVars, aloneVars>>

\* CursorStore.Save as its caller sees the start of it: the state is marshalled
\* and os.WriteFile opens the file with O_TRUNC
SaveOpen(p, st, n) ==
    /\ sp' = [sp EXCEPT ![p].mem = SaveNormal(st),
                        ![p].data = MarshalIndent(SaveNormal(st)),
                        ![p].pc = "writing", ![p].at = n]
    /\ sfile' = [exists |-> TRUE, bytes |-> << >>]

\* the loop handles the next record: the journal loop and the follow closure
\* set its position in the state and call Save; the file sweep only tracks latest
StoreEvent(p) ==
    /\ sp[p].pc = "run" /\ sp[p].at < slen
    /\ LET n == sp[p].at + 1 IN
       IF sp[p].src = "journal"
       THEN SaveOpen(p, [sp[p].mem EXCEPT !.JournalCursor = CursorOf(n)], n)
       ELSE IF p = "watch"
       THEN SaveOpen(p, [sp[p].mem EXCEPT
                            !.FileOffsets = Offsets(MapPut(@.m, StorePath, n))], n)
       ELSE /\ sp' = [sp EXCEPT ![p].at = n,
                                ![p].latest = IF n > @ THEN n ELSE @]
            /\ UNCHANGED sfile
    /\ UNCHANGED <<slen, sdone, sgot, sarg, sel, filterVars, dispVars, pipeVars,
                   cliVars, mailVars, aloneVars>>

\* the sweep is at the end of its source: the journal sweep returns, the file
\* sweep saves latest and returns when the write is done
StoreSweepEnd ==
    /\ sp["sweep"].pc = "run" /\ sp["sweep"].at >= slen
    /\ IF sp["sweep"].src = "journal"
       THEN /\ sp' = [sp EXCEPT !["sweep"].pc = "off"]
            /\ UNCHANGED sfile
       ELSE SaveOpen("sweep", [sp["sweep"].mem EXCEPT
               !.FileOffsets = Offsets(MapPut(@.m, StorePath, sp["sweep"].latest))],
               sp["sweep"].at)
    /\ UNCHANGED <<slen, sdone, sgot, sarg, sel, filterVars, dispVars, pipeVars,
                   cliVars, mailVars, aloneVars>>

\* os.WriteFile writes the bytes at offset 0 and closes the file: Save returns
WriteFileWrite(p) ==
    /\ sp[p].pc = "writing"
    /\ sfile' = [sfile EXCEPT !.bytes = WriteAt0(sp[p].data, @)]
    /\ sp' = [sp EXCEPT ![p].pc = IF p = "sweep" /\ sp[p].src = "file"
                                  THEN "off" ELSE "run"]
    /\ sdone' = [st |-> sp[p].mem, by |-> sdone.by \cup {p}]
    /\ UNCHANGED <<slen, sgot, sarg, sel, filterVars, dispVars, pipeVars,
                   cliVars, mailVars, aloneVars>>

\* the command dies inside os.WriteFile (crash, kill -9, power loss): the file
\* is truncated and holds none or only the first bytes of the new state
WriteFileTorn(p) ==
    /\ sp[p].pc = "writing"
    /\ \E k \in 0..(Len(sp[p].data) - 1) :
          sfile' = [sfile EXCEPT !.bytes = WriteAt0(SubSeq(sp[p].data, 1, k), @)]
    /\ sp' = [sp EXCEPT ![p].pc = "off"]
    /\ UNCHANGED <<slen, sdone, sgot, sarg, sel, filterVars, dispVars, pipeVars,
                   cliVars, mailVars, aloneVars>>

\* the watch is interrupted between two records and returns
StoreStop(p) ==
    /\ sp[p].pc = "run"
    /\ sp' = [sp EXCEPT ![p].pc = "off"]
    /\ UNCHANGED <<sfile, slen, sdone, sgot, sarg, sel, filterVars, dispVars, pipeVars,
                   cliVars, mailVars, aloneVars>>

NextStore ==
    \/ StoreAppend
    \/ \E p \in Procs : StoreStart(p)
    \/ \E p \in Procs : StoreEvent(p)
    \/ StoreSweepEnd
    \/ \E p \in Procs : WriteFileWrite(p)
    \/ \E p \in Procs : WriteFileTorn(p)
    \/ \E p \in Procs : StoreStop(p)

SpecStore == InitStore /\ [][NextStore]_vars

----------------------------------------------------------------------------
(* Save and Load as functions: any state is saved, the file is removed or   *)
(* holds a cursor string of the legacy format, and Load reads it back       *)

\* the log paths a state may hold offsets for
StorePaths == {StorePath, "/var/log/secure"}

\* every map from some of the paths to an offset
OffsetMaps ==
    UNION {[keys -> 0..MaxStoreRecords] : keys \in SUBSET StorePaths}

\* the states Save is called with
StoreStates ==
    {SourceState(CursorOf(n), o) :
        n \in 0..MaxStoreRecords,
        o \in {NilOffsets} \cup {Offsets(m) : m \in OffsetMaps}}

InitRoundTrip ==
    /\ src = "journal" /\ PipelineInit
    /\ CliIdle /\ MailIdle /\ AloneIdle
    /\ filter = newNotifyFilter(NotifyOnAll, 0, 0) /\ fhist = << >>
    /\ cfgFile = PipelineConfig
    /\ DispatchIdle
    /\ sfile = NoFile
    /\ sarg = [op |-> "remove", st |-> EmptyState]
    /\ sgot = [st |-> EmptyState, fresh |-> FALSE]
    /\ sp = << >> /\ slen = 0 /\ sdone = << >> /\ sel = << >>

\* Save(st) from its first line to the return of os.WriteFile
RoundTripSave ==
    /\ \E st \in StoreStates :
          /\ sarg' = [op |-> "save", st |-> st]
          /\ sfile' = [exists |-> TRUE,
                       bytes |-> WriteAt0(MarshalIndent(SaveNormal(st)), << >>)]
    /\ sgot' = [sgot EXCEPT !.fresh = FALSE]
    /\ UNCHANGED <<sp, slen, sdone, sel, filterVars, dispVars, pipeVars,
                   cliVars, mailVars, aloneVars>>

\* the state file is deleted
RoundTripRemove ==
    /\ sfile.exists
    /\ sfile' = NoFile
    /\ sarg' = [op |-> "remove", st |-> EmptyState]
    /\ sgot' = [sgot EXCEPT !.fresh = FALSE]
    /\ UNCHANGED <<sp, slen, sdone, sel, filterVars, dispVars, pipeVars,
                   cliVars, mailVars, aloneVars>>

\* the state file is one an old version wrote: the bare cursor string
RoundTripLegacy ==
    /\ \E n \in 1..MaxStoreRecords :
          /\ sfile' = [exists |-> TRUE, bytes |-> CursorOf(n)]
          /\ sarg' = [op |-> "legacy", st |-> SourceState(CursorOf(n), NilOffsets)]
    /\ sgot' = [sgot EXCEPT !.fresh = FALSE]
    /\ UNCHANGED <<sp, slen, sdone, sel, filterVars, dispVars, pipeVars,
                   cliVars, mailVars, aloneVars>>

\* Load()
RoundTripLoad ==
    /\ sgot' = [st |-> CursorStoreLoad(sfile), fresh |-> TRUE]
    /\ UNCHANGED <<sfile, sarg, sp, slen, sdone, sel, filterVars, dispVars, pipeVars,
                   cliVars, mailVars, aloneVars>>

NextRoundTrip ==
    \/ RoundTripSave
    \/ RoundTripRemove
    \/ RoundTripLegacy
    \/ RoundTripLoad

SpecRoundTrip == InitRoundTrip /\ [][NextRoundTrip]_vars

----------------------------------------------------------------------------
(* Source selection on its own: determineSource, probeJournal, firstExisting *)

sourceAuto == "auto"
sourceJournal == "journal"
sourceFile == "file"

\* the values of --source the model tries
SourceArgs == {"", "auto", " Auto ", "journal", "JOURNAL", "file", " File", "syslog"}

\* strings.ToLower(strings.TrimSpace(source)) on those values
ToLowerTrimSpace(a) ==
    CASE a \in {"auto", " Auto "} -> "auto"
      [] a \in {"journal", "JOURNAL"} -> "journal"
      [] a \in {"file", " File"} -> "file"
      [] OTHER -> a

\* the values of --log-path the model tries
PathArgs == {<< >>, <<"/var/log/secure">>, <<"", "/var/log/auth.log">>}

\* probeJournal: false when journalctl is not installed; otherwise true, with a
\* count of 1 when one of the lines it prints parses as a login event
probeJournal(found, matches) ==
    [ok |-> found, count |-> IF found /\ matches > 0 THEN 1 ELSE 0]

\* firstExisting: the first path that is not empty and names a regular file
RECURSIVE firstExisting(_, _, _)
firstExisting(paths, i, exists) ==
    IF i > Len(paths) THEN [path |-> "", ok |-> FALSE]
    ELSE IF paths[i] # "" /\ paths[i] \in exists THEN [path |-> paths[i], ok |-> TRUE]
    ELSE firstExisting(paths, i + 1, exists)

SelectJournal == [err |-> FALSE, Source |-> sourceJournal, LogPath |-> ""]
SelectFile(path) == [err |-> FALSE, Source |-> sourceFile, LogPath |-> path]
SelectError == [err |-> TRUE, Source |-> "", LogPath |-> ""]

\* a determineSource that in follow mode, too, asks for a recent match
determineSourceRecentFirst(source, paths, found, matches, exists, follow) ==
    LET ps == IF Len(paths) = 0 THEN <<"/var/log/auth.log", "/var/log/secure">> ELSE paths
        s0 == ToLowerTrimSpace(source)
        s1 == IF s0 = "" THEN sourceAuto ELSE s0
        probe == probeJournal(found, matches)
        journalOK == probe.ok
        journalRecent == probe.count > 0
        log == firstExisting(ps, 1, exists)
    IN IF s1 = sourceJournal
       THEN IF ~journalOK THEN SelectError ELSE SelectJournal
       ELSE IF s1 = sourceFile
       THEN IF ~log.ok THEN SelectError ELSE SelectFile(log.path)
       ELSE IF s1 = sourceAuto
       THEN IF journalOK /\ journalRecent THEN SelectJournal
            ELSE IF log.ok THEN SelectFile(log.path)
            ELSE IF journalOK THEN SelectJournal
            ELSE SelectError
       ELSE SelectError

\* determineSource
determineSource(source, paths, found, matches, exists, follow) ==
    LET ps == IF Len(paths) = 0 THEN <<"/var/log/auth.log", "/var/log/secure">> ELSE paths
        s0 == ToLowerTrimSpace(source)
        s1 == IF s0 = "" THEN sourceAuto ELSE s0
        probe == probeJournal(found, matches)
        journalOK == probe.ok
        journalRecent == probe.count > 0
        log == firstExisting(ps, 1, exists)
    IN IF s1 = sourceJournal
       THEN IF ~journalOK THEN SelectError ELSE SelectJournal
       ELSE IF s1 = sourceFile
       THEN IF ~log.ok THEN SelectError ELSE SelectFile(log.path)
       ELSE IF s1 = sourceAuto
       THEN IF follow
            THEN IF journalOK THEN SelectJournal
                 ELSE IF log.ok THEN SelectFile(log.path)
                 ELSE SelectError
            ELSE IF journalOK /\ journalRecent THEN SelectJournal
                 ELSE IF log.ok THEN SelectFile(log.path)
                 ELSE IF journalOK THEN SelectJournal
                 ELSE SelectError
       ELSE SelectError

\* a machine and a command line: whether journalctl is installed, how many
\* recent journal lines are login events, which log files exist, whether the
\* log file found holds a recent login event, and the options of the command
InitSource ==
    /\ src = "journal" /\ PipelineInit
    /\ CliIdle /\ MailIdle /\ AloneIdle
    /\ filter = newNotifyFilter(NotifyOnAll, 0, 0) /\ fhist = << >>
    /\ cfgFile = PipelineConfig
    /\ DispatchIdle
    /\ sfile = << >> /\ sp = << >> /\ slen = 0 /\ sdone = << >> /\ sgot = << >>
    /\ sarg = << >>
    /\ \E a \in SourceArgs, ps \in PathArgs, found \in BOOLEAN, matches \in 0..1,
          exists \in SUBSET StorePaths, fileRecent \in BOOLEAN, follow \in BOOLEAN :
          sel = [source |-> a, paths |-> ps, found |-> found,
                 matches |-> IF found THEN matches ELSE 0, exists |-> exists,
                 fileRecent |-> fileRecent /\ firstExisting(
                     IF ps = << >> THEN <<"/var/log/auth.log", "/var/log/secure">>
                     ELSE ps, 1, exists).ok,
                 follow |-> follow,
                 done |-> FALSE, out |-> SelectError]

\* RunWatch (follow) or RunSweep (one shot) calls determineSource
Determine ==
    /\ ~sel.done
    /\ sel' = [sel EXCEPT !.done = TRUE,
                          !.out = determineSource(sel.source, sel.paths, sel.found,
                                                  sel.matches, sel.exists, sel.follow)]
    /\ UNCHANGED <<sfile, sp, slen, sdone, sgot, sarg, filterVars, dispVars, pipeVars,
                   cliVars, mailVars, aloneVars>>

NextSource == Determine

SpecSource == InitSource /\ [][NextSource]_vars

----------------------------------------------------------------------------
(* The dispatcher on its own: events handed to it one after the other,     *)
(* the configuration file rewritten by the CLI in between                  *)

InitDispatch ==
    /\ src = "file" /\ PipelineInit /\ UnitIdle
    /\ filter = newNotifyFilter(NotifyOnAll, 0, 0) /\ fhist = << >>
    /\ cfgFile \in ConfigFiles
    /\ DispatchIdle

\* the read loop hands the next event to dispatchEvent
HandEvent ==
    /\ dpc \in {"idle", "done"}
    /\ DispatchEnter
    /\ UNCHANGED <<cfgFile, filterVars, pipeVars>>
    /\ UNCHANGED unitVars

\* a CLI command (configure, enable, disable, delete) or an editor rewrites the file
EditConfig ==
    /\ \/ cfgFile' \in {c \in ConfigFiles : c.state # "json"}
       \/ cfgFile' = [state |-> "json", channels |-> << >>]
       \/ /\ cfgFile.state = "json" /\ Len(cfgFile.channels) < MaxChannels
          /\ \E ch \in ChannelPool :
                cfgFile' = [cfgFile EXCEPT !.channels = Append(@, ch)]
       \/ /\ cfgFile.state = "json"
          /\ \E i \in DOMAIN cfgFile.channels :
                cfgFile' = [cfgFile EXCEPT !.channels[i].Enabled = ~@]
    /\ UNCHANGED <<dpc, dch, di, derrs, dret, dcfg, dsent, dres, filterVars, pipeVars>>
    /\ UNCHANGED unitVars

NextDispatch ==
    \/ HandEvent
    \/ EditConfig
    \/ InLoop(DispatchLoad)
    \/ InLoop(DispatchBuild)
    \/ InLoop(SendReply)
    \/ InLoop(SendTimeout)
    \/ InLoop(DispatchReturn)

SpecDispatch == InitDispatch /\ [][NextDispatch]_vars

----------------------------------------------------------------------------
(* The notify commands that rewrite notify.json (command.go, part_006,     *)
(* part_007), run one after the other while the watcher dispatches events  *)

\* number of notify commands run in one behaviour
MaxCommands == 3

\* the notify.json or notify.json.backup file when it does not exist
MissingFile == [state |-> "missing", channels |-> << >>]

\* the file between the open with O_TRUNC and the write of os.WriteFile: empty
TruncatedFile == [state |-> "corrupt", channels |-> << >>]

\* the file holding the JSON of cfg
JsonFile(cfg) == [state |-> "json", channels |-> cfg]

\* --name of notify curl ("" when not given) and --name of enable / disable
NameArgs == {"", "a", "b"}

\* generateChannelName("curl"): curl_ and six characters drawn from the clock
GeneratedNames == {"curl_g"}

\* the command lines given to notify curl: two that parse, one without a URL
CurlArgs ==
    {CurlCmd(<<"curl", "http://sink">>, FALSE),
     CurlCmd(<<"curl", "-X", "post", "-d", "{}", "http://sink">>, FALSE),
     CurlCmd(<<"curl", "-X", "post">>, FALSE)}

\* ChannelConfig
ChannelConfig(name, enabled, type, curl, email) ==
    [Name |-> name, Enabled |-> enabled, Type |-> type, Curl |-> curl, Email |-> email]

\* addOrUpdateChannel where every channel is appended
addOrUpdateChannelAppend(cfg, newChannel) == Append(cfg, newChannel)

\* addOrUpdateChannel, from the loaded Config to the Config it saves: the first
\* channel with the same non-empty name is overwritten, else the channel is appended
addOrUpdateChannel(cfg, newChannel) ==
    LET hits == {i \in DOMAIN cfg : cfg[i].Name # "" /\ cfg[i].Name = newChannel.Name} IN
    IF hits # {}
    THEN LET i == CHOOSE k \in hits : \A j \in hits : k <= j IN
         [cfg EXCEPT ![i] = newChannel]
    ELSE Append(cfg, newChannel)

\* ConfigManager.configExists
configExists(file) == file.state # "missing"

\* the RunE of newToggleCmd from loadConfig to the call of saveConfig: err, or
\* the Config to save (save is FALSE when --all finds nothing to change)
toggleChannels(cfg, enabled, all, name, index) ==
    IF ~all /\ name = "" /\ index = 0 THEN [err |-> TRUE, save |-> FALSE, cfg |-> cfg]
    ELSE IF Len(cfg) = 0 THEN [err |-> TRUE, save |-> FALSE, cfg |-> cfg]
    ELSE IF all
    THEN IF \A i \in DOMAIN cfg : cfg[i].Enabled = enabled
         THEN [err |-> FALSE, save |-> FALSE, cfg |-> cfg]
         ELSE [err |-> FALSE, save |-> TRUE,
               cfg |-> [i \in DOMAIN cfg |-> [cfg[i] EXCEPT !.Enabled = enabled]]]
    ELSE IF name # ""
    THEN LET hits == {i \in DOMAIN cfg : cfg[i].Name = name} IN
         IF hits = {} THEN [err |-> TRUE, save |-> FALSE, cfg |-> cfg]
         ELSE LET i == CHOOSE k \in hits : \A j \in hits : k <= j IN
              [err |-> FALSE, save |-> TRUE, cfg |-> [cfg EXCEPT ![i].Enabled = enabled]]
    ELSE IF index > Len(cfg) THEN [err |-> TRUE, save |-> FALSE, cfg |-> cfg]
    ELSE [err |-> FALSE, save |-> TRUE, cfg |-> [cfg EXCEPT ![index].Enabled = enabled]]

\* the channels of cfg that pass keep, in their order
RECURSIVE SelectChannels(_, _)
SelectChannels(cfg, keep) ==
    IF cfg = << >> THEN << >>
    ELSE (IF 1 \in keep THEN <<Head(cfg)>> ELSE << >>)
            \o SelectChannels(Tail(cfg), {i - 1 : i \in keep \ {1}})

\* the RunE of newDeleteCmd after loadConfig, for --type and --index
deleteChannels(cfg, type, index) ==
    IF type # ""
    THEN LET keep == {i \in DOMAIN cfg : cfg[i].Type # type} IN
         IF keep = DOMAIN cfg THEN [err |-> TRUE, save |-> FALSE, cfg |-> cfg]
         ELSE [err |-> FALSE, save |-> TRUE, cfg |-> SelectChannels(cfg, keep)]
    ELSE IF index > Len(cfg) THEN [err |-> TRUE, save |-> FALSE, cfg |-> cfg]
    ELSE [err |-> FALSE, save |-> TRUE,
          cfg |-> SelectChannels(cfg, DOMAIN cfg \ {index})]

\* the command returns without having touched a file (ch: the channel a notify
\* curl was given, for the history)
CliReturns(op, ch, res) ==
    /\ chist' = [n |-> chist.n + 1, op |-> op, ch |-> ch, res |-> res, old |-> cfgFile,
                 new |-> cfgFile]
    /\ UNCHANGED <<cfgFile, backup, cli>>

\* ConfigManager.SaveConfig up to the open of os.WriteFile: ValidateConfig, then
\* the file is opened with O_TRUNC and is empty until the data is written
SaveConfigOpen(op, ch, cfg) ==
    IF ~ValidateConfig(cfg)
    THEN /\ chist' = [n |-> chist.n + 1, op |-> op, ch |-> ch, res |-> "error", old |-> cfgFile,
                      new |-> cfgFile]
         /\ UNCHANGED <<cfgFile, cli>>
    ELSE /\ cfgFile' = TruncatedFile
         /\ cli' = [pc |-> "write", data |-> cfg]
         /\ chist' = [n |-> chist.n + 1, op |-> op, ch |-> ch, res |-> "saved", old |-> cfgFile,
                      new |-> JsonFile(cfg)]

\* notify curl: configureCurl and addOrUpdateChannel up to the open of the file
\* in SaveConfig.  A SaveConfig that fails is followed by RestoreConfig
CliConfigure ==
    /\ cli.pc = "idle" /\ chist.n < MaxCommands
    /\ \E curlCmd \in CurlArgs, arg \in NameArgs, gen \in GeneratedNames,
          tested \in BOOLEAN :
          LET name == IF arg = "" THEN gen ELSE arg
              channel == ChannelConfig(name, TRUE, "curl", curlCmd, Nil)
              l == LoadConfig(cfgFile)
              cfg == addOrUpdateChannel(l.cfg, channel)
          IN  IF NewCurlNotifier(curlCmd).err \/ ~tested \/ l.err = "error"
              THEN CliReturns("configure", channel, "error")
              ELSE /\ Len(cfg) <= MaxChannels
                   /\ backup' = IF configExists(cfgFile) THEN cfgFile ELSE backup
                   /\ IF ValidateConfig(cfg)
                      THEN SaveConfigOpen("configure", channel, cfg)
                      ELSE /\ cfgFile' = IF configExists(backup') THEN backup' ELSE cfgFile
                           /\ chist' = [n |-> chist.n + 1, op |-> "configure",
                                        ch |-> channel, res |-> "error", old |-> cfgFile,
                                        new |-> cfgFile']
                           /\ UNCHANGED cli
    /\ UNCHANGED <<dpc, dch, di, derrs, dret, dcfg, dsent, dres>>
    /\ UNCHANGED <<filterVars, pipeVars, storeVars, mailVars, aloneVars>>

\* notify enable / notify disable: the RunE of newToggleCmd up to the open of the
\* file in SaveConfig
CliToggle ==
    /\ cli.pc = "idle" /\ chist.n < MaxCommands
    /\ \E enabled \in BOOLEAN, all \in BOOLEAN, name \in NameArgs \cup GeneratedNames,
          index \in 0..(MaxChannels + 1) :
          LET l == LoadConfig(cfgFile)
              op == IF enabled THEN "enable" ELSE "disable"
              t == toggleChannels(l.cfg, enabled, all, name, index)
          IN  IF l.err # "none" \/ t.err THEN CliReturns(op, Nil, "error")
              ELSE IF ~t.save THEN CliReturns(op, Nil, "nothing")
              ELSE SaveConfigOpen(op, Nil, t.cfg) /\ UNCHANGED backup
    /\ UNCHANGED <<dpc, dch, di, derrs, dret, dcfg, dsent, dres>>
    /\ UNCHANGED <<filterVars, pipeVars, storeVars, mailVars, aloneVars>>

\* notify delete: --all removes the file (DeleteConfig); --type and --index load
\* the Config, drop channels and go to the open of the file in SaveConfig
CliDelete ==
    /\ cli.pc = "idle" /\ chist.n < MaxCommands
    /\ \E all \in BOOLEAN, type \in {"", "curl", "email"}, index \in 0..(MaxChannels + 1) :
          LET l == LoadConfig(cfgFile)
              d == deleteChannels(l.cfg, type, index)
          IN  IF ~all /\ type = "" /\ index = 0 THEN CliReturns("delete", Nil, "error")
              ELSE IF all
              THEN /\ cfgFile' = MissingFile
                   /\ chist' = [n |-> chist.n + 1, op |-> "delete", ch |-> Nil,
                                res |-> "removed",
                                old |-> cfgFile, new |-> MissingFile]
                   /\ UNCHANGED <<backup, cli>>
              ELSE IF l.err = "notfound" THEN CliReturns("delete", Nil, "nothing")
              ELSE IF l.err = "error" \/ d.err THEN CliReturns("delete", Nil, "error")
              ELSE SaveConfigOpen("delete", Nil, d.cfg) /\ UNCHANGED backup
    /\ UNCHANGED <<dpc, dch, di, derrs, dret, dcfg, dsent, dres>>
    /\ UNCHANGED <<filterVars, pipeVars, storeVars, mailVars, aloneVars>>

\* os.WriteFile in SaveConfig writes the data and the command returns
CliWrite ==
    /\ cli.pc = "write"
    /\ cfgFile' = JsonFile(cli.data)
    /\ cli' = [pc |-> "idle", data |-> << >>]
    /\ UNCHANGED <<backup, chist>>
    /\ UNCHANGED <<dpc, dch, di, derrs, dret, dcfg, dsent, dres>>
    /\ UNCHANGED <<filterVars, pipeVars, storeVars, mailVars, aloneVars>>

\* a fresh install (no notify.json), or a notify.json with one unnamed e-mail channel
InitConfig ==
    /\ src = "file" /\ PipelineInit /\ StoreIdle /\ MailIdle /\ AloneIdle
    /\ filter = newNotifyFilter(NotifyOnAll, 0, 0) /\ fhist = << >>
    /\ cfgFile \in {MissingFile,
                    JsonFile(<<ChannelConfig("", TRUE, "email", Nil, EmailOK)>>)}
    /\ backup = MissingFile
    /\ cli = [pc |-> "idle", data |-> << >>]
    /\ chist = [n |-> 0, op |-> "none", ch |-> Nil, res |-> "nothing", old |-> cfgFile,
                new |-> cfgFile]
    /\ DispatchIdle

NextConfig ==
    \/ CliConfigure
    \/ CliToggle
    \/ CliDelete
    \/ CliWrite
    \/ HandEvent
    \/ InLoop(DispatchLoad)
    \/ InLoop(DispatchBuild)
    \/ InLoop(SendReply)
    \/ InLoop(DispatchReturn)

SpecConfig == InitConfig /\ [][NextConfig]_vars

----------------------------------------------------------------------------
(* Validation on its own: SaveConfig and LoadConfig applied to Configs as a *)
(* command builds them or as an editor leaves them in notify.json          *)

\* the channel bodies validation is given: well-formed ones, and one for each
\* way of being malformed
ValidateBodies ==
    {[Type |-> "curl", Email |-> Nil, Curl |-> CurlCmd(<<"curl", "http://sink">>, FALSE)],
     [Type |-> "curl", Email |-> Nil, Curl |-> CurlCmd(<<"curl", "-X", "post">>, FALSE)],
     [Type |-> "curl", Email |-> Nil, Curl |-> CurlCmd(<< >>, FALSE)],
     [Type |-> "curl", Email |-> Nil, Curl |-> Nil],
     [Type |-> "curl", Email |-> EmailOK, Curl |-> CurlCmd(<<"curl", "http://sink">>, FALSE)],
     [Type |-> "email", Curl |-> Nil, Email |-> EmailOK],
     [Type |-> "email", Curl |-> Nil, Email |-> [EmailOK EXCEPT !.Port = 0]],
     [Type |-> "email", Curl |-> Nil, Email |-> [EmailOK EXCEPT !.Port = 65536]],
     [Type |-> "email", Curl |-> Nil, Email |-> [EmailOK EXCEPT !.To = "ops"]],
     [Type |-> "sms", Curl |-> Nil, Email |-> Nil]}

ValidateChannels ==
    {ChannelConfig(n, TRUE, b.Type, b.Curl, b.Email) : n \in {"", "a"}, b \in ValidateBodies}

ValidateConfigs == UNION {[1..n -> ValidateChannels] : n \in 0..MaxChannels}

\* a Config in memory about to be saved, or a Config in notify.json about to be loaded
InitValidate ==
    /\ src = "file" /\ PipelineInit /\ StoreIdle /\ MailIdle /\ AloneIdle
    /\ filter = newNotifyFilter(NotifyOnAll, 0, 0) /\ fhist = << >>
    /\ DispatchIdle
    /\ backup = MissingFile
    /\ \E cfg \in ValidateConfigs :
          \/ cfgFile = MissingFile /\ cli = [pc |-> "save", data |-> cfg]
          \/ cfgFile = JsonFile(cfg) /\ cli = [pc |-> "idle", data |-> << >>]
    /\ chist = [n |-> 0, op |-> "none", ch |-> Nil, res |-> "nothing", old |-> cfgFile,
                new |-> cfgFile]

\* ConfigManager.SaveConfig(cfg) up to the open of the file
ValidateSave ==
    /\ cli.pc = "save"
    /\ IF ValidateConfig(cli.data)
       THEN SaveConfigOpen("save", Nil, cli.data)
       ELSE /\ cli' = [pc |-> "idle", data |-> << >>]
            /\ chist' = [chist EXCEPT !.n = @ + 1, !.op = "save", !.res = "error"]
            /\ UNCHANGED cfgFile
    /\ UNCHANGED backup
    /\ UNCHANGED <<dpc, dch, di, derrs, dret, dcfg, dsent, dres>>
    /\ UNCHANGED <<filterVars, pipeVars, storeVars, mailVars, aloneVars>>

\* ConfigManager.LoadConfig()
ValidateLoad ==
    /\ cli.pc = "idle" /\ chist.op # "load"
    /\ LET l == LoadConfig(cfgFile) IN
       /\ cli' = [pc |-> "idle", data |-> l.cfg]
       /\ chist' = [n |-> chist.n + 1, op |-> "load", ch |-> Nil, res |-> l.err,
                    old |-> cfgFile, new |-> cfgFile]
    /\ UNCHANGED <<cfgFile, backup>>
    /\ UNCHANGED <<dpc, dch, di, derrs, dret, dcfg, dsent, dres>>
    /\ UNCHANGED <<filterVars, pipeVars, storeVars, mailVars, aloneVars>>

NextValidate ==
    \/ ValidateSave
    \/ CliWrite
    \/ ValidateLoad

SpecValidate == InitValidate /\ [][NextValidate]_vars

----------------------------------------------------------------------------
(* One Send of an EmailNotifier: part_002 EmailNotifier.Send and            *)
(* sendMailWithTimeout, against a server that answers or fails each step    *)

\* the characters of the addresses: a letter, the at sign, CR and LF
CR == "\r"
LF == "\n"

\* strings.ContainsAny(line, chars), a string being the sequence of its characters
ContainsAny(line, chars) == \E i \in DOMAIN line : line[i] \in chars

\* a validateSMTPLine that looks for LF only
validateSMTPLineLFOnly(line) == ~ContainsAny(line, {LF})

\* validateSMTPLine: TRUE when the line is accepted
validateSMTPLine(line) == ~ContainsAny(line, {CR, LF})

\* a needsImplicitTLS that takes the submission port for an implicit TLS port too
needsImplicitTLSSubmission(port) == port \in {465, 587}

\* needsImplicitTLS
needsImplicitTLS(port) == port = 465

\* the To and From of the notifier
SmtpAddresses ==
    {<<"a", "@", "b">>, <<"a", CR, "b">>, <<"a", "@", "b", LF>>, <<"a", CR, LF, "b">>}

\* the ports of the notifier
SmtpPorts == {25, 465, 587}

\* what a server can advertise in its EHLO reply
SmtpExtensions == {"STARTTLS", "AUTH"}

\* a step of the session is made: it is recorded, and on success Send goes on to
\* next; on failure Send returns the error and the deferred client.Close() (or
\* conn.Close()) closes the connection
SmtpStep(step, ok, next) ==
    /\ wire' = Append(wire, step)
    /\ smtp' = IF ok THEN [smtp EXCEPT !.pc = next]
               ELSE [smtp EXCEPT !.pc = "done", !.ret = "error", !.failed = step]

\* Send returns an error without having made a step
SmtpReturnsError ==
    /\ smtp' = [smtp EXCEPT !.pc = "done", !.ret = "error"]
    /\ UNCHANGED wire

\* Send up to the dial: the message is built and validateSMTPLine is applied to
\* From and To
SmtpValidate ==
    /\ smtp.pc = "validate"
    /\ IF validateSMTPLine(smtp.From) /\ validateSMTPLine(smtp.To)
       THEN smtp' = [smtp EXCEPT !.pc = "dial"] /\ UNCHANGED wire
       ELSE SmtpReturnsError
    /\ UNCHANGED <<filterVars, dispVars, pipeVars, storeVars, cliVars, aloneVars>>

\* dialer.Dial and conn.SetDeadline
SmtpDial ==
    /\ smtp.pc = "dial"
    /\ \E ok \in BOOLEAN :
          SmtpStep("DIAL", ok, IF needsImplicitTLS(smtp.Port) THEN "handshake" ELSE "greeting")
    /\ UNCHANGED <<filterVars, dispVars, pipeVars, storeVars, cliVars, aloneVars>>

\* tlsConn.Handshake on the implicit TLS port
SmtpHandshake ==
    /\ smtp.pc = "handshake"
    /\ \E ok \in BOOLEAN : SmtpStep("TLS", ok, "greeting")
    /\ UNCHANGED <<filterVars, dispVars, pipeVars, storeVars, cliVars, aloneVars>>

\* smtp.NewClient reads the greeting of the server
SmtpGreeting ==
    /\ smtp.pc = "greeting"
    /\ \E ok \in BOOLEAN :
          SmtpStep("GREETING", ok, IF needsImplicitTLS(smtp.Port) THEN "auth" ELSE "starttls")
    /\ UNCHANGED <<filterVars, dispVars, pipeVars, storeVars, cliVars, aloneVars>>

\* client.Extension("STARTTLS") on the other ports: the first Extension call
\* sends EHLO (a failed EHLO leaves no extension known); StartTLS when the
\* server advertised it, after which the server's extensions are asked again
SmtpStartTLS ==
    /\ smtp.pc = "starttls"
    /\ \E hello \in BOOLEAN, ok \in BOOLEAN :
          LET ext == IF hello THEN smtp.advPlain ELSE {} IN
          IF "STARTTLS" \in ext
          THEN /\ wire' = wire \o <<"EHLO", "STARTTLS">>
               /\ smtp' = IF ok THEN [smtp EXCEPT !.pc = "auth", !.ext = smtp.advTLS,
                                                  !.hello = TRUE]
                          ELSE [smtp EXCEPT !.pc = "done", !.ret = "error",
                                            !.failed = "STARTTLS", !.hello = TRUE]
          ELSE /\ wire' = Append(wire, "EHLO")
               /\ smtp' = [smtp EXCEPT !.pc = "auth", !.ext = ext, !.hello = TRUE,
                                       !.failed = IF hello THEN "" ELSE "EHLO"]
    /\ UNCHANGED <<filterVars, dispVars, pipeVars, storeVars, cliVars, aloneVars>>

\* auth is never nil (smtp.PlainAuth): client.Extension("AUTH"), which sends
\* EHLO when none was sent yet, then client.Auth
SmtpAuth ==
    /\ smtp.pc = "auth"
    /\ \E hello \in BOOLEAN, ok \in BOOLEAN :
          LET ext == IF smtp.hello THEN smtp.ext
                     ELSE IF hello THEN smtp.advTLS ELSE {}
              sent == IF smtp.hello THEN wire ELSE Append(wire, "EHLO")
          IN  IF "AUTH" \notin ext
              THEN /\ wire' = sent
                   /\ smtp' = [smtp EXCEPT !.pc = "done", !.ret = "error", !.ext = ext,
                                           !.hello = TRUE,
                                           !.failed = IF smtp.hello \/ hello THEN @
                                                      ELSE "EHLO"]
              ELSE /\ wire' = Append(sent, "AUTH")
                   /\ smtp' = IF ok THEN [smtp EXCEPT !.pc = "mail", !.ext = ext,
                                                      !.hello = TRUE]
                              ELSE [smtp EXCEPT !.pc = "done", !.ret = "error",
                                                !.ext = ext, !.hello = TRUE,
                                                !.failed = "AUTH"]
    /\ UNCHANGED <<filterVars, dispVars, pipeVars, storeVars, cliVars, aloneVars>>

\* a client.Mail whose error is dropped
SmtpMailKeepGoing ==
    /\ smtp.pc = "mail"
    /\ \E ok \in BOOLEAN :
          /\ wire' = Append(wire, "MAIL")
          /\ smtp' = IF ok THEN [smtp EXCEPT !.pc = "rcpt"]
                     ELSE [smtp EXCEPT !.pc = "rcpt", !.failed = "MAIL"]
    /\ UNCHANGED <<filterVars, dispVars, pipeVars, storeVars, cliVars, aloneVars>>

\* client.Mail(e.From)
SmtpMail ==
    /\ smtp.pc = "mail"
    /\ \E ok \in BOOLEAN : SmtpStep("MAIL", ok, "rcpt")
    /\ UNCHANGED <<filterVars, dispVars, pipeVars, storeVars, cliVars, aloneVars>>

\* client.Rcpt(e.To)
SmtpRcpt ==
    /\ smtp.pc = "rcpt"
    /\ \E ok \in BOOLEAN : SmtpStep("RCPT", ok, "data")
    /\ UNCHANGED <<filterVars, dispVars, pipeVars, storeVars, cliVars, aloneVars>>

\* client.Data()
SmtpData ==
    /\ smtp.pc = "data"
    /\ \E ok \in BOOLEAN : SmtpStep("DATA", ok, "write")
    /\ UNCHANGED <<filterVars, dispVars, pipeVars, storeVars, cliVars, aloneVars>>

\* w.Write(msg); when it fails the writer is still closed (w.Close()), which
\* ends the data, before Send returns the error
SmtpWrite ==
    /\ smtp.pc = "write"
    /\ \E ok \in BOOLEAN :
          IF ok THEN SmtpStep("MESSAGE", TRUE, "close")
          ELSE /\ wire' = wire \o <<"MESSAGE", "END">>
               /\ smtp' = [smtp EXCEPT !.pc = "done", !.ret = "error", !.failed = "MESSAGE"]
    /\ UNCHANGED <<filterVars, dispVars, pipeVars, storeVars, cliVars, aloneVars>>

\* w.Close(): the end of the data and the server's reply to the message
SmtpClose ==
    /\ smtp.pc = "close"
    /\ \E ok \in BOOLEAN : SmtpStep("END", ok, "quit")
    /\ UNCHANGED <<filterVars, dispVars, pipeVars, storeVars, cliVars, aloneVars>>

\* client.Quit(); Send returns nil when it succeeds
SmtpQuit ==
    /\ smtp.pc = "quit"
    /\ \E ok \in BOOLEAN :
          /\ wire' = Append(wire, "QUIT")
          /\ smtp' = IF ok THEN [smtp EXCEPT !.pc = "done", !.ret = "nil"]
                     ELSE [smtp EXCEPT !.pc = "done", !.ret = "error", !.failed = "QUIT"]
    /\ UNCHANGED <<filterVars, dispVars, pipeVars, storeVars, cliVars, aloneVars>>

\* Send is called on a notifier with some To, From and Port, against a server
\* that advertises advPlain before TLS and advTLS inside TLS
InitSMTP ==
    /\ src = "file" /\ PipelineInit /\ StoreIdle /\ CliIdle /\ AloneIdle
    /\ filter = newNotifyFilter(NotifyOnAll, 0, 0) /\ fhist = << >>
    /\ cfgFile = PipelineConfig
    /\ DispatchIdle
    /\ \E to \in SmtpAddresses, from \in SmtpAddresses, port \in SmtpPorts,
          advPlain \in SUBSET SmtpExtensions, advTLS \in SUBSET {"AUTH"} :
          smtp = [pc |-> "validate", To |-> to, From |-> from, Port |-> port,
                  advPlain |-> advPlain, advTLS |-> advTLS, ext |-> {}, hello |-> FALSE,
                  ret |-> "none", failed |-> ""]
    /\ wire = << >>

NextSMTP ==
    \/ SmtpValidate
    \/ SmtpDial
    \/ SmtpHandshake
    \/ SmtpGreeting
    \/ SmtpStartTLS
    \/ SmtpAuth
    \/ SmtpMail
    \/ SmtpRcpt
    \/ SmtpData
    \/ SmtpWrite
    \/ SmtpClose
    \/ SmtpQuit

SpecSMTP == InitSMTP /\ [][NextSMTP]_vars

----------------------------------------------------------------------------
(* The curl parser on its own: tokenize applied to command lines given     *)
(* character by character, ParseCurl applied to argument lists             *)

\* length of the command lines tokenize is given
MaxCmdLen == 5

\* number of arguments ParseCurl is given
MaxArgs == 5

\* the characters of a command line: a letter, a blank, the two quotes, the backslash
DQ == "\""
SQ == "'"
BS == "\\"
CmdChars == {"a", " ", DQ, SQ, BS}

\* case ' ', '\t', '\n', '\r'
Whitespace == {" ", "\t", "\n", "\r"}

\* the command line of the tokenizer example: curl -H "X: y" 'a b' http://x
ExampleCmd ==
    <<"c", "u", "r", "l", " ", "-", "H", " ", DQ, "X", ":", " ", "y", DQ, " ",
      SQ, "a", " ", "b", SQ, " ", "h", "t", "t", "p", ":", "/", "/", "x">>

\* the loop of tokenize from character i on; st holds tokens, current, inQuote
\* ("" for 0) and escape.  After the loop: the last token is appended, and an
\* open quote is an error
RECURSIVE tokenizeFrom(_, _, _)
tokenizeFrom(cmd, i, st) ==
    IF i > Len(cmd)
    THEN LET tokens == IF Len(st.current) > 0 THEN Append(st.tokens, st.current)
                       ELSE st.tokens
         IN  IF st.inQuote # "" THEN [err |-> TRUE, tokens |-> << >>]
             ELSE [err |-> FALSE, tokens |-> tokens]
    ELSE LET ch == cmd[i] IN
         IF st.escape
         THEN tokenizeFrom(cmd, i + 1, [st EXCEPT !.current = Append(@, ch),
                                                  !.escape = FALSE])
         ELSE IF ch = BS
         THEN tokenizeFrom(cmd, i + 1, [st EXCEPT !.escape = TRUE])
         ELSE IF st.inQuote # ""
         THEN IF ch = st.inQuote
              THEN tokenizeFrom(cmd, i + 1, [st EXCEPT !.inQuote = ""])
              ELSE tokenizeFrom(cmd, i + 1, [st EXCEPT !.current = Append(@, ch)])
         ELSE IF ch \in {DQ, SQ}
         THEN tokenizeFrom(cmd, i + 1, [st EXCEPT !.inQuote = ch])
         ELSE IF ch \in Whitespace
         THEN IF Len(st.current) > 0
              THEN tokenizeFrom(cmd, i + 1, [st EXCEPT !.tokens = Append(@, st.current),
                                                       !.current = << >>])
              ELSE tokenizeFrom(cmd, i + 1, st)
         ELSE tokenizeFrom(cmd, i + 1, [st EXCEPT !.current = Append(@, ch)])

\* a tokenize that treats a quote as an ordinary character
tokenizeRunesNoQuotes(cmd) ==
    tokenizeFrom([i \in DOMAIN cmd |-> IF cmd[i] \in {DQ, SQ} THEN "q" ELSE cmd[i]], 1,
                 [tokens |-> << >>, current |-> << >>, inQuote |-> "", escape |-> FALSE])

\* tokenize on the characters of the command line
tokenizeRunes(cmd) ==
    tokenizeFrom(cmd, 1,
                 [tokens |-> << >>, current |-> << >>, inQuote |-> "", escape |-> FALSE])

\* the command lines of up to MaxCmdLen characters, and the example
CommandLines == UNION {[1..n -> CmdChars] : n \in 0..MaxCmdLen} \cup {ExampleCmd}

InitTokenize ==
    /\ src = "file" /\ PipelineInit /\ StoreIdle /\ CliIdle /\ MailIdle /\ BesidesCurlIdle
    /\ filter = newNotifyFilter(NotifyOnAll, 0, 0) /\ fhist = << >>
    /\ cfgFile = PipelineConfig
    /\ DispatchIdle
    /\ curlIn \in CommandLines
    /\ curlOut = [done |-> FALSE, err |-> FALSE, tokens |-> << >>]

\* tokenize(cmd) is called
Tokenize ==
    /\ ~curlOut.done
    /\ LET t == tokenizeRunes(curlIn) IN
       curlOut' = [done |-> TRUE, err |-> t.err, tokens |-> t.tokens]
    /\ UNCHANGED curlIn
    /\ UNCHANGED <<filterVars, dispVars, pipeVars, storeVars, cliVars, mailVars, besidesCurl>>

NextTokenize == Tokenize

SpecTokenize == InitTokenize /\ [][NextTokenize]_vars

\* the words ParseCurl's argument lists are made of
ArgWords ==
    {"curl", "-X", "--request", "get", "put", "-d", "--data-raw", "{}", "-H", "X: y",
     "http://sink", "-k"}

ArgLists == UNION {[1..n -> ArgWords] : n \in 0..MaxArgs}

InitParseCurl ==
    /\ src = "file" /\ PipelineInit /\ StoreIdle /\ CliIdle /\ MailIdle /\ BesidesCurlIdle
    /\ filter = newNotifyFilter(NotifyOnAll, 0, 0) /\ fhist = << >>
    /\ cfgFile = PipelineConfig
    /\ DispatchIdle
    /\ \E args \in ArgLists : curlIn = CurlCmd(args, FALSE)
    /\ curlOut = [done |-> FALSE, req |-> << >>]

\* ParseCurl(curlCmd) is called
Parse ==
    /\ ~curlOut.done
    /\ curlOut' = [done |-> TRUE, req |-> ParseCurl(curlIn)]
    /\ UNCHANGED curlIn
    /\ UNCHANGED <<filterVars, dispVars, pipeVars, storeVars, cliVars, mailVars, besidesCurl>>

NextParseCurl == Parse

SpecParseCurl == InitParseCurl /\ [][NextParseCurl]_vars

----------------------------------------------------------------------------
(* The log parser alone: parseAuthLogLine and parseJournalMessage.  A line  *)
(* is the sequence of its fields, the text between single blanks; an empty  *)
(* field stands for two blanks in a row.                                    *)

\* longest line the perturbations are applied to, in fields
MaxFields == 11

\* the fields standing where the patterns capture: method, user, address, port
MethodWords == {"password", "keyboard-interactive/pam"}
UserWords == {"root", "admin"}
AddrWords == {"1.2.3.4", "::ffff:1.2.3.4", "fe80::1%eth0", "gw.example.com", "UNKNOWN",
              "::ffff:"}
PortWords == {"0", "22", "65535", "65536", "22x", "x"}

\* (\d+): the digits a field starts with as strconv.Atoi reads them, -1 when it
\* starts with none
LeadingDigits(w) ==
    CASE w = "0" -> 0
      [] w \in {"22", "22x"} -> 22
      [] w = "65535" -> 65535
      [] w = "65536" -> 65536
      [] w = "1" -> 1
      [] w = "30" -> 30
      [] OTHER -> -1

\* stripAddress: TrimPrefix "::ffff:", then cut at the first "%"
stripAddress(addr) ==
    CASE addr = "::ffff:1.2.3.4" -> "1.2.3.4"
      [] addr = "::ffff:" -> ""
      [] addr = "fe80::1%eth0" -> "fe80::1"
      [] OTHER -> addr

\* normalizeMethod
normalizeMethod(method) ==
    IF method = "keyboard-interactive/pam" THEN "keyboard-interactive" ELSE method

\* net.ParseIP(s) != nil
IsIP(s) == s \in {"1.2.3.4", "fe80::1", "127.0.0.1", "10.0.0.1", "192.168.1.1"}

\* &LoginEvent{...}, true
LoginEvent(type, user, addr, method, portWord) ==
    [ok |-> TRUE, Type |-> type, User |-> user, IP |-> stripAddress(addr),
     Method |-> method, Port |-> LeadingDigits(portWord)]

\* nil, false
NoLoginEvent == [ok |-> FALSE]

\* whether the fields of m from position i on are the literals lit
HasAt(m, i, lit) ==
    /\ Len(m) >= i + Len(lit) - 1
    /\ \A k \in 1..Len(lit) : m[i + k - 1] = lit[k]

\* a capture of \S+ or [^ ]+ at field i, and of (\d+) at field i
Captures(m, i) == Len(m) >= i /\ m[i] # ""
CapturesDigits(m, i) == Len(m) >= i /\ LeadingDigits(m[i]) >= 0

\* successRe and failRe without "invalid user": <verb> (\S+) for (\S+) from ([^ ]+) port (\d+)
MatchVerb(m, verb) ==
    /\ HasAt(m, 1, <<verb>>) /\ Captures(m, 2) /\ HasAt(m, 3, <<"for">>)
    /\ Captures(m, 4) /\ HasAt(m, 5, <<"from">>) /\ Captures(m, 6)
    /\ HasAt(m, 7, <<"port">>) /\ CapturesDigits(m, 8)

\* failRe with "invalid user "
MatchFailInvalid(m) ==
    /\ HasAt(m, 1, <<"Failed">>) /\ Captures(m, 2)
    /\ HasAt(m, 3, <<"for", "invalid", "user">>)
    /\ Captures(m, 6) /\ HasAt(m, 7, <<"from">>) /\ Captures(m, 8)
    /\ HasAt(m, 9, <<"port">>) /\ CapturesDigits(m, 10)

\* disconnectAuthRe
MatchDisconnect(m) ==
    /\ HasAt(m, 1, <<"Disconnected", "from", "authenticating", "user">>)
    /\ Captures(m, 5) /\ Captures(m, 6) /\ HasAt(m, 7, <<"port">>)
    /\ CapturesDigits(m, 8)

\* connectionClosedRe with "authenticating user (\S+) ", and without
MatchClosedUser(m) ==
    /\ HasAt(m, 1, <<"Connection", "closed", "by", "authenticating", "user">>)
    /\ Captures(m, 6) /\ Captures(m, 7) /\ HasAt(m, 8, <<"port">>)
    /\ CapturesDigits(m, 9)

MatchClosed(m) ==
    /\ HasAt(m, 1, <<"Connection", "closed", "by">>)
    /\ Captures(m, 4) /\ HasAt(m, 5, <<"port">>) /\ CapturesDigits(m, 6)

\* strings.Contains(message, "[preauth]")
ContainsPreauth(m) == \E k \in 1..Len(m) : m[k] = "[preauth]"

\* parseJournalMessage(message, host, ts)
parseJournalMessage(m) ==
    IF m = << >> THEN NoLoginEvent
    ELSE IF MatchVerb(m, "Accepted")
    THEN LoginEvent(EventLoginSuccess, m[4], m[6], normalizeMethod(m[2]), m[8])
    ELSE IF MatchFailInvalid(m)
    THEN LoginEvent(EventLoginFailed, m[6], m[8], normalizeMethod(m[2]), m[10])
    ELSE IF MatchVerb(m, "Failed")
    THEN LoginEvent(EventLoginFailed, m[4], m[6], normalizeMethod(m[2]), m[8])
    ELSE IF MatchDisconnect(m)
    THEN LoginEvent(EventLoginFailed, m[5], m[6], "preauth", m[8])
    ELSE IF ContainsPreauth(m) /\ MatchClosedUser(m)
    THEN LoginEvent(EventLoginFailed, m[6], m[7], "preauth", m[9])
    ELSE IF ContainsPreauth(m) /\ MatchClosed(m)
    THEN LoginEvent(EventLoginFailed, "unknown", m[4], "preauth", m[6])
    ELSE NoLoginEvent

\* the syslog prefixes a line of the log file starts with: month, day, clock,
\* host and program tag
SyslogPrefixes ==
    {<<"Feb", "1", "10:00:00", "host", "sshd[1]:">>,
     <<"Feb", "1", "10:00:00", "host", "sshd:">>,
     <<"Feb", "30", "10:00:00", "host", "sshd[1]:">>,
     <<"Feb", "1", "25:00:00", "host", "sshd[1]:">>,
     <<"Foo", "1", "10:00:00", "host", "sshd[1]:">>,
     <<"Feb", "1", "10:00:00", "host", "sudo:">>}

\* syslogRe on the prefix
MatchSyslog(pre) ==
    /\ Len(pre) = 5
    /\ pre[1] \in {"Jan", "Feb", "Mar", "Apr", "May", "Jun", "Jul", "Aug", "Sep", "Oct",
                   "Nov", "Dec"}
    /\ pre[2] \in {"1", "30"}
    /\ pre[3] \in {"10:00:00", "25:00:00"}
    /\ pre[4] # ""
    /\ pre[5] \in {"sshd[1]:", "sshd:"}

\* time.ParseInLocation("Jan 2 15:04:05 2006", ...) returns no error
ParseInLocationOK(pre) == ~(pre[1] = "Feb" /\ pre[2] = "30") /\ pre[3] # "25:00:00"

\* the \s+ before (.*) takes every blank there is: the message starts at a field
RECURSIVE TrimLeft(_)
TrimLeft(m) == IF m # << >> /\ Head(m) = "" THEN TrimLeft(Tail(m)) ELSE m

\* parseAuthLogLine(line)
parseAuthLogLine(line) ==
    IF line.pre = << >> /\ line.msg = << >> THEN NoLoginEvent
    ELSE IF ~MatchSyslog(line.pre) THEN NoLoginEvent
    ELSE IF ~ParseInLocationOK(line.pre) THEN NoLoginEvent
    ELSE parseJournalMessage(TrimLeft(line.msg))

\* the messages sshd writes, and some it does not
MessageShapes ==
    UNION {
      { <<"Accepted", m, "for", u, "from", a, "port", p, "ssh2">>,
        <<"Failed", m, "for", u, "from", a, "port", p, "ssh2">>,
        <<"Failed", m, "for", "invalid", "user", u, "from", a, "port", p, "ssh2">>,
        <<"Disconnected", "from", "authenticating", "user", u, a, "port", p,
          "[preauth]">>,
        <<"Connection", "closed", "by", "authenticating", "user", u, a, "port", p,
          "[preauth]">>,
        <<"Connection", "closed", "by", a, "port", p, "[preauth]">>,
        <<"Connection", "closed", "by", a, "port", p>>,
        <<"Server", "listening", "on", a, "port", p>> }
      : <<m, u, a, p>> \in MethodWords \X {"root"} \X AddrWords \X PortWords }
    \cup { <<"Failed", "password", "for", u, "from", "1.2.3.4", "port", "22">>
           : u \in UserWords }
    \cup { << >> }

\* a message with field k removed, or emptied (a second blank in its place)
WithoutField(m, k) == SubSeq(m, 1, k - 1) \o SubSeq(m, k + 1, Len(m))
EmptiedField(m, k) == [m EXCEPT ![k] = ""]

LogMessages ==
    MessageShapes
    \cup UNION { {WithoutField(m, k), EmptiedField(m, k)} :
                 <<m, k>> \in { x \in MessageShapes \X (1..MaxFields) : x[2] <= Len(x[1]) } }

\* the lines of the file source, and the messages of the journal source
LogLines ==
    { [mode |-> "journal", pre |-> << >>, msg |-> m] : m \in LogMessages }
    \cup { [mode |-> "file", pre |-> pre, msg |-> m] :
           <<pre, m>> \in SyslogPrefixes \X LogMessages }
    \cup { [mode |-> "file", pre |-> << >>, msg |-> m] : m \in MessageShapes }

InitParseLog ==
    /\ src = "file" /\ PipelineInit /\ StoreIdle /\ CliIdle /\ MailIdle
    /\ BesidesParseIdle
    /\ filter = newNotifyFilter(NotifyOnAll, 0, 0) /\ fhist = << >>
    /\ cfgFile = PipelineConfig
    /\ DispatchIdle
    /\ logLine \in LogLines
    /\ logOut = [done |-> FALSE, event |-> NoLoginEvent]

\* parseLine(line) of the file source, parseJournalMessage of the journal source
ParseLog ==
    /\ ~logOut.done
    /\ logOut' = [done |-> TRUE,
                  event |-> IF logLine.mode = "file" THEN parseAuthLogLine(logLine)
                            ELSE parseJournalMessage(logLine.msg)]
    /\ UNCHANGED logLine
    /\ UNCHANGED <<filterVars, dispVars, pipeVars, storeVars, cliVars, mailVars, besidesParse>>

NextParseLog == ParseLog

SpecParseLog == InitParseLog /\ [][NextParseLog]_vars

----------------------------------------------------------------------------
(* The IP lookup alone: IPLookup.Lookup with its cache and its two          *)
(* providers.                                                               *)

\* number of Lookup calls of one process
MaxLookups == 3

\* the addresses looked up: public ones, private ones, and a host name
LookupAddrs == {"1.2.3.4", "5.6.7.8", "10.0.0.1", "127.0.0.1", "gw.example.com"}

\* providers: ipinfo.io, ip-api.com
NumProviders == 2

\* what provider.Lookup returns: an error, a result whose String() is empty, or
\* a result with a location
ProviderReplies == {"err", "", "US", "DE"}

\* the fixed label Lookup returns for private addresses ("内网")
PrivateLabel == "private"

\* a Lookup call that has returned
LookupRecord(ip, replies, value, before, after) ==
    [ip |-> ip, replies |-> replies, ret |-> value, before |-> before, after |-> after]

\* Lookup(ip) up to the first provider: private addresses and cached ones return
LookupCall ==
    /\ look.pc = "idle" /\ Len(lhist) < MaxLookups
    /\ \E ip \in LookupAddrs :
          IF isPrivateIP(ip)
          THEN /\ lhist' = Append(lhist, LookupRecord(ip, << >>, PrivateLabel,
                                                      look.cache, look.cache))
               /\ look' = [look EXCEPT !.ip = ip, !.replies = << >>]
          ELSE IF ip \in DOMAIN look.cache
          THEN /\ lhist' = Append(lhist, LookupRecord(ip, << >>, look.cache[ip],
                                                      look.cache, look.cache))
               /\ look' = [look EXCEPT !.ip = ip, !.replies = << >>]
          ELSE /\ look' = [look EXCEPT !.pc = "query", !.ip = ip, !.i = 1,
                                       !.replies = << >>]
               /\ UNCHANGED lhist
    /\ UNCHANGED <<filterVars, dispVars, pipeVars, storeVars, cliVars, mailVars,
                   besidesLookup>>

\* provider.Lookup(ctx, ip) returns, with the empty result never stored
ProviderReturnsForgetful ==
    /\ look.pc = "query"
    /\ \E reply \in ProviderReplies :
          LET asked == [look EXCEPT !.replies = Append(@, reply)] IN
          IF reply \notin {"err", ""}
          THEN LET stored == MapPut(look.cache, look.ip, reply) IN
               /\ lhist' = Append(lhist, LookupRecord(look.ip, asked.replies, reply,
                                                      look.cache, stored))
               /\ look' = [asked EXCEPT !.pc = "idle", !.cache = stored]
          ELSE IF look.i < NumProviders
          THEN /\ look' = [asked EXCEPT !.i = @ + 1]
               /\ UNCHANGED lhist
          ELSE /\ lhist' = Append(lhist, LookupRecord(look.ip, asked.replies, "",
                                                      look.cache, look.cache))
               /\ look' = [asked EXCEPT !.pc = "idle"]
    /\ UNCHANGED <<filterVars, dispVars, pipeVars, storeVars, cliVars, mailVars,
                   besidesLookup>>

\* provider.Lookup(ctx, ip) of the provider the loop is at returns: a result with
\* a location is stored and returned, otherwise the next provider is tried, and
\* after the last one the empty result is stored
ProviderReturns ==
    /\ look.pc = "query"
    /\ \E reply \in ProviderReplies :
          LET asked == [look EXCEPT !.replies = Append(@, reply)] IN
          IF reply \notin {"err", ""}
          THEN LET stored == MapPut(look.cache, look.ip, reply) IN
               /\ lhist' = Append(lhist, LookupRecord(look.ip, asked.replies, reply,
                                                      look.cache, stored))
               /\ look' = [asked EXCEPT !.pc = "idle", !.cache = stored]
          ELSE IF look.i < NumProviders
          THEN /\ look' = [asked EXCEPT !.i = @ + 1]
               /\ UNCHANGED lhist
          ELSE LET stored == MapPut(look.cache, look.ip, "") IN
               /\ lhist' = Append(lhist, LookupRecord(look.ip, asked.replies, "",
                                                      look.cache, stored))
               /\ look' = [asked EXCEPT !.pc = "idle", !.cache = stored]
    /\ UNCHANGED <<filterVars, dispVars, pipeVars, storeVars, cliVars, mailVars,
                   besidesLookup>>

InitLookup ==
    /\ src = "file" /\ PipelineInit /\ StoreIdle /\ CliIdle /\ MailIdle
    /\ BesidesLookupIdle
    /\ filter = newNotifyFilter(NotifyOnAll, 0, 0) /\ fhist = << >>
    /\ cfgFile = PipelineConfig
    /\ DispatchIdle
    /\ look = [pc |-> "idle", cache |-> EmptyMap, ip |-> "", i |-> 0, replies |-> << >>]
    /\ lhist = << >>

NextLookup == LookupCall \/ ProviderReturns

SpecLookup == InitLookup /\ [][NextLookup]_vars

----------------------------------------------------------------------------
(* readLogFile in follow mode on its own, byte by byte: syslog appends to   *)
(* the file while bufio.Reader.ReadString reads it                          *)

\* number of bytes written to the file
MaxBytes == 6

\* the bytes of a log file: a letter of a line, and the newline
LogChars == {"a", LF}

\* index of the first newline of the file after position p, 0 when there is none
NextNewline(p) ==
    IF \E k \in (p + 1)..Len(logBytes) : logBytes[k] = LF
    THEN CHOOSE k \in (p + 1)..Len(logBytes) :
            logBytes[k] = LF /\ \A j \in (p + 1)..(k - 1) : logBytes[j] # LF
    ELSE 0

\* syslog writes: a whole line in one write, or a line in pieces
WriteBytes ==
    /\ Len(logBytes) < MaxBytes
    /\ \E c \in LogChars : logBytes' = Append(logBytes, c)
    /\ UNCHANGED reader
    /\ UNCHANGED <<filterVars, dispVars, pipeVars, storeVars, cliVars, mailVars,
                   besidesReader>>

\* reader.ReadString('\n') returns a line: offset += len(line), the line goes to
\* parseAuthLogLine and the event with the offset to handle
ReadStringLine ==
    /\ NextNewline(reader.pos) # 0
    /\ LET k == NextNewline(reader.pos)
           line == SubSeq(logBytes, reader.pos + 1, k)
           newOffset == reader.offset + Len(line)
       IN reader' = [reader EXCEPT !.pos = k, !.offset = newOffset,
                                   !.lines = Append(@, [text |-> line,
                                                        offset |-> newOffset])]
    /\ UNCHANGED logBytes
    /\ UNCHANGED <<filterVars, dispVars, pipeVars, storeVars, cliVars, mailVars,
                   besidesReader>>

\* reader.ReadString('\n') returns io.EOF: the bytes it read before the end of
\* the file are consumed and dropped with the error, the offset stays; the loop
\* sleeps, reopenIfRotated finds the same file, no shorter than the offset
ReadStringEOF ==
    /\ NextNewline(reader.pos) = 0
    /\ reader.pos < Len(logBytes)
    /\ reader' = [reader EXCEPT !.pos = Len(logBytes)]
    /\ UNCHANGED logBytes
    /\ UNCHANGED <<filterVars, dispVars, pipeVars, storeVars, cliVars, mailVars,
                   besidesReader>>

InitReader ==
    /\ src = "file" /\ PipelineInit /\ StoreIdle /\ CliIdle /\ MailIdle
    /\ BesidesReaderIdle
    /\ filter = newNotifyFilter(NotifyOnAll, 0, 0) /\ fhist = << >>
    /\ cfgFile = PipelineConfig
    /\ DispatchIdle
    /\ logBytes = << >>
    /\ reader = [pos |-> 0, offset |-> 0, lines |-> << >>]

NextReader == WriteBytes \/ ReadStringLine \/ ReadStringEOF

SpecReader == InitReader /\ [][NextReader]_vars

----------------------------------------------------------------------------
(* The filter stack on its own: events in source order, times non-decreasing *)

\* gaps between the timestamps of consecutive events
Gaps == {0, 4999, 5000, 5001, 50001}

FailWindows == {10000}
FailLimits == {0, 1, 2}

\* the shapes of event the stream carries: (type, ip, port, user)
FilterShapes ==
    {<<EventLoginFailed, "1.1.1.1", 22, "root">>,
     <<EventLoginFailed, "1.1.1.1", 23, "root">>,
     <<EventLoginFailed, "2.2.2.2", 22, "root">>,
     <<EventLoginSuccess, "1.1.1.1", 22, "root">>}

FilterEvents(now) ==
    {[Type |-> s[1], IP |-> s[2], Port |-> s[3], User |-> s[4], Timestamp |-> now] :
        s \in FilterShapes}

FilterClock == IF fhist = << >> THEN 0 ELSE Last(fhist).ev.Timestamp

InitFilter ==
    /\ src = "file" /\ PipelineInit /\ UnitIdle
    /\ DispatchIdle
    /\ cfgFile = [state |-> "missing", channels |-> << >>]
    /\ \E n \in {NotifyOnAll, NotifyOnSuccess, NotifyOnFailed},
          l \in FailLimits, w \in FailWindows :
          filter = newNotifyFilter(n, l, w)
    /\ fhist = << >>

\* one event of the stream reaches filter.shouldNotify
FilterEvent ==
    /\ Len(fhist) < MaxEvents
    /\ \E g \in Gaps : \E e \in FilterEvents(FilterClock + g) :
          LET r == shouldNotify(filter, e) IN
          /\ filter' = r.filter
          /\ fhist' = Append(fhist, [ev |-> e, out |-> r.out])
    /\ UNCHANGED <<dispVars, pipeVars>>
    /\ UNCHANGED unitVars

NextFilter == FilterEvent

SpecFilter == InitFilter /\ [][NextFilter]_vars

----------------------------------------------------------------------------
(* One failed attempt under a running watch on the journal with --notify:    *)
(* runJournalWithFilter's loop (watcher.go) over the records sshd wrote for  *)
(* it, parseJournalMessage (part_012), then the filter stack                 *)

\* the most records one attempt leaves in the journal
MaxAttemptLines == 3

\* the time of a record, in ms after the first record of the attempt
AttemptOffsets == {0, 2000, 4999, 5000}

\* what sshd writes for one failed password from 1.2.3.4 port 22, and the line
\* pam_unix adds to it
AttemptMessages ==
    {<<"Failed", "password", "for", "root", "from", "1.2.3.4", "port", "22", "ssh2">>,
     <<"Disconnected", "from", "authenticating", "user", "root", "1.2.3.4", "port", "22",
       "[preauth]">>,
     <<"Connection", "closed", "by", "authenticating", "user", "root", "1.2.3.4", "port",
       "22", "[preauth]">>,
     <<"Connection", "closed", "by", "1.2.3.4", "port", "22", "[preauth]">>,
     <<"pam_unix(sshd:auth):", "authentication", "failure;">>}

\* the records of an attempt: in the order of their times
AttemptRecords ==
    { recs \in UNION { [1..n -> [msg : AttemptMessages, at : AttemptOffsets]] :
                         n \in 1..MaxAttemptLines } :
        /\ recs[1].at = 0
        /\ \A i \in 1..(Len(recs) - 1) : recs[i].at <= recs[i + 1].at }

\* the LoginEvent parseJournalMessage builds from the message and the record's ts
EventAt(p, ts) ==
    [Type |-> p.Type, User |-> p.User, IP |-> p.IP, Method |-> p.Method,
     Port |-> p.Port, Timestamp |-> ts]

InitAttempt ==
    /\ src = "journal" /\ PipelineInit /\ StoreIdle /\ CliIdle /\ MailIdle
    /\ BesidesAttemptIdle
    /\ \E on \in {NotifyOnAll, NotifyOnFailed, NotifyOnSuccess}, limit \in FailLimits :
          filter = newNotifyFilter(on, limit, 10000)
    /\ fhist = << >>
    /\ cfgFile = PipelineConfig
    /\ DispatchIdle
    /\ \E recs \in AttemptRecords :
          attempt = [recs |-> recs, next |-> 1, cursor |-> 0, sent |-> << >>]

\* one pass of the loop over scanner.Scan(): a record that is no login event is
\* skipped; an event the filter rejects moves the cursor and is saved; an event
\* the filter passes is dispatched, printed, and the cursor is saved
ReadAttemptRecord ==
    /\ attempt.next <= Len(attempt.recs)
    /\ LET rec == attempt.recs[attempt.next]
           p == parseJournalMessage(rec.msg)
       IN IF ~p.ok
          THEN /\ attempt' = [attempt EXCEPT !.next = @ + 1]
               /\ UNCHANGED filter
          ELSE LET r == shouldNotify(filter, EventAt(p, rec.at)) IN
               /\ filter' = r.filter
               /\ attempt' = [attempt EXCEPT
                     !.next = @ + 1,
                     !.cursor = attempt.next,
                     !.sent = IF r.out = "pass"
                              THEN Append(@, [ev |-> EventAt(p, rec.at), rec |-> attempt.next])
                              ELSE @]
    /\ UNCHANGED fhist
    /\ UNCHANGED <<dispVars, pipeVars, storeVars, cliVars, mailVars, besidesAttempt>>

NextAttempt == ReadAttemptRecord

SpecAttempt == InitAttempt /\ [][NextAttempt]_vars

----------------------------------------------------------------------------
(* Claims about the read loops and the cursor store (checked under Spec) *)

\* the loop is about to read the next record
AtNextRead == pc \in {"read", "jscan"}

\* the last event this run parsed
LastEvent == rhist[Len(rhist)]

SavedRecords ==
    IF ~disk.exists THEN {}
    ELSE IF src = "journal"
    THEN {journal[i] : i \in {j \in DOMAIN journal : j <= disk.JournalCursor}}
    ELSE LET f == files[diskTag.stream[1]] IN
         IF f.trunc # diskTag.stream[2] THEN {}
         ELSE {f.lines[i] : i \in {j \in DOMAIN f.lines : j <= disk.FileOffset}}

\* C3: a watch that was started from a saved position and has caught up with the
\* end of the source has passed to the filter stack every matching record
\* written after that position; for the file source, also when the file was
\* removed, created or truncated while no command was running
C3_NothingSkippedAfterRestart ==
    /\ ( /\ src = "file" /\ pc = "eofSleep" /\ run.follow
         /\ startTag > 0 /\ ~changedRun
         /\ pathInode # 0 /\ rd.inode = pathInode
         /\ offset = FileSize(files[pathInode]) )
       => \A i \in DOMAIN files[pathInode].lines :
             LET r == files[pathInode].lines[i] IN
             (parseLine(r).ok /\ r.id > startTag) => r.id \in FilteredRun
    /\ ( /\ src = "journal" /\ pc = "jscan" /\ run.follow
         /\ startTag > 0 /\ jpos = Len(journal) )
       => \A i \in DOMAIN journal :
             (parseLine(journal[i]).ok /\ journal[i].id > startTag)
                => journal[i].id \in FilteredRun

\* C4 as stated: once a Save has succeeded, every event of the source located
\* before the saved position has been passed to the dispatcher
C4_AllPriorEventsDispatched ==
    \A r \in SavedRecords : parseLine(r).ok => r.id \in handedEver

\* C4, amended: once a Save of a run has succeeded, every event that run parsed
\* up to the saved position is done with: it was dropped (lookback cutoff,
\* historical skip, filter stage, notification off) or dispatchEvent was called
\* for it and has returned
C4_SavedEventsAreDone ==
    (disk.exists /\ diskTag.run = nrun) =>
        \A i \in DOMAIN rhist :
            rhist[i].id <= diskTag.upTo =>
                /\ rhist[i].fate # "sending"
                /\ rhist[i].fate \in {"ok", "error"} => rhist[i].id \in handedEver

\* the saved position lies behind an event that a filter stage dropped, so that
\* event was never passed to the dispatcher
C4_Witness ==
    /\ disk.exists /\ diskTag.run = nrun
    /\ \E i \in DOMAIN rhist :
          /\ rhist[i].id = diskTag.upTo
          /\ rhist[i].fate = "filter"
          /\ rhist[i].id \notin handedEver
    /\ \E i \in DOMAIN rhist : rhist[i].fate \in {"ok", "error"}

\* a step reads the next record of the source
ReadsRecord ==
    \/ pc = "read" /\ offset' = offset + 1 /\ rd' = rd
    \/ pc = "jscan" /\ jpos' = jpos + 1

\* a step calls Save
CallsSave == nrun' = nrun /\ lastCall' # lastCall

SavedPosition(d) == IF src = "journal" THEN d.JournalCursor ELSE d.FileOffset

\* C8: the events of a run reach the filter stack in source order, and a Save
\* never replaces the saved position by an earlier one of the same stream
C8_OrderedAndMonotone ==
    [][ /\ \A i, j \in DOMAIN rhist : i < j => rhist[i].id < rhist[j].id
        /\ (disk.exists /\ disk' # disk /\ diskTag'.stream = diskTag.stream) =>
              SavedPosition(disk') >= SavedPosition(disk)
      ]_vars

\* C9: with the remote endpoints silent, every Send that is out returns and
\* every IP lookup that is out returns, so the loop goes on to the next record
C9_OutageCannotStall ==
    /\ (dpc = "sending") ~> (dpc # "sending")
    /\ (pc = "lookup") ~> (pc # "lookup")

\* C10: once the context is cancelled the command returns
C10_CancelReturns == cancelled ~> (pc = "stopped")

\* C11: when the context is cancelled while a Send of an event is out, Save is
\* not called with the position of that event and the state file does not come
\* to hold it, so that the next run reads the event again
C11_InFlightEventNotSaved ==
    \A i \in DOMAIN rhist :
        rhist[i].cut =>
            /\ lastCall.id # rhist[i].id
            /\ ~(disk.exists /\ diskTag.run = nrun /\ diskTag.upTo = rhist[i].id)

\* C12: a watch that has returned after its context was cancelled has returned
\* nil, from the journal loop as from the file follow loop, and the position of
\* the last event it finished is the one it last handed to Save
C12_CancelledWatchReturnsNil ==
    (pc = "stopped" /\ cancelled /\ run.follow) =>
        /\ ret = "nil"
        /\ rhist # << >> => lastCall.id = LastEvent.id

\* C16: a watch ends only when its context is cancelled: no failure of the log
\* file and no failure or exit of journalctl makes RunWatch return
C16_WatchEndsOnlyByCancel ==
    (pc = "stopped" /\ run.follow) => cancelled

\* the record a step reads, and the position after it
RecordRead == IF src = "journal" THEN journal[jpos'] ELSE files[rd.inode].lines[offset']
PositionRead == IF src = "journal" THEN jpos' ELSE offset'

\* C17 as stated: a step that reads a record with no login event in it neither
\* dispatches nor filters anything, and in the loops that save per event it
\* hands the position after the record to Save
C17_CursorPassesSkipped ==
    [][ (ReadsRecord /\ ~parseLine(RecordRead).ok) =>
            /\ UNCHANGED <<rhist, handedEver, dispVars, filter>>
            /\ SavesPerEvent => (CallsSave /\ lastCall'.pos = PositionRead)
      ]_vars

\* C17, amended: such a step changes nothing but the read position: no
\* dispatch, no filter, no Save; the saved position passes the record with the
\* next Save, since every Save hands over a position at or after every record
\* read so far
C17_SkippedWithoutSave ==
    [][ /\ (ReadsRecord /\ ~parseLine(RecordRead).ok) =>
              UNCHANGED <<rhist, handedEver, dispVars, filter, state, disk, lastCall, pc>>
        /\ CallsSave => lastCall'.pos >= (IF src = "journal" THEN jpos' ELSE offset')
      ]_vars

\* a watch on the journal saved an event, then read a record it could not use:
\* the saved cursor is still the event's
C17_Witness ==
    /\ src = "journal" /\ run.follow /\ pc = "jscan"
    /\ rhist # << >> /\ lastCall.id = LastEvent.id
    /\ jpos > lastCall.pos /\ ~parseLine(journal[jpos]).ok
    /\ disk.exists /\ disk.JournalCursor = lastCall.pos

\* C20 as stated: in a sweep that does not notify, every event inside the
\* lookback window has gone through the filter stack (the deduper has recorded
\* it) and none was dispatched
C20_SilentSweepFilters ==
    (~run.follow /\ ~run.notify /\ nrun > 0) =>
        /\ \A i \in DOMAIN rhist :
              rhist[i].fate # "cutoff" =>
                  DedupeKey(EventOf(rhist[i])) \in DOMAIN filter.seen
        /\ dpc = "idle"

\* C20, amended: in a sweep that does not notify, no event goes through any
\* stage of the filter stack: the filter is as newNotifyFilter made it, every
\* event inside the lookback window is printed, none is dispatched
C20_SilentSweepSkipsFilters ==
    (~run.follow /\ ~run.notify /\ nrun > 0) =>
        /\ filter = newNotifyFilter(NotifyOnAll, 0, 0)
        /\ \A i \in DOMAIN rhist : rhist[i].fate \in {"cutoff", "silent"}
        /\ dpc = "idle"

\* a sweep that does not notify printed two events of the same address, port
\* and user with the same timestamp, and returned
C20_Witness ==
    /\ ~run.follow /\ ~run.notify /\ pc = "stopped" /\ ret = "nil"
    /\ Len(rhist) = 2
    /\ rhist[1].fate = "silent" /\ rhist[2].fate = "silent"
    /\ rhist[1].ts = rhist[2].ts

----------------------------------------------------------------------------
(* Claims about the historical skip (checked under SpecSkew) *)

\* the event is older than the start of the run by more than the tolerance
OlderThanStart(h) == h.ts < run.start - journalHistoryTolerance

\* a suppressed event is the last one parsed and the loop is at the next read:
\* Save was called with its position
SuppressedIsSaved ==
    (AtNextRead /\ rhist # << >> /\ LastEvent.fate = "historical") =>
        lastCall.id = LastEvent.id

\* C19 as stated: in a watch on the journal that started without a saved
\* cursor an event is suppressed as historical exactly when its timestamp is
\* more than the tolerance before the start of the run; a suppressed event has
\* its position saved; in a run that started with a saved cursor no event is
\* suppressed
C19_SuppressedExactlyWhenOld ==
    /\ \A i \in DOMAIN rhist :
          IF run.cold
          THEN rhist[i].fate = "historical" <=> OlderThanStart(rhist[i])
          ELSE rhist[i].fate # "historical"
    /\ SuppressedIsSaved

\* C19, amended: the skip ends with the first event that is not suppressed: an
\* event is suppressed exactly when the run started without a saved cursor, its
\* timestamp is more than the tolerance before the start, and every event the
\* run parsed before it was suppressed too
C19_SuppressedUntilFirstCurrent ==
    /\ \A i \in DOMAIN rhist :
          rhist[i].fate = "historical" <=>
              /\ run.cold
              /\ OlderThanStart(rhist[i])
              /\ \A j \in 1..(i - 1) : rhist[j].fate = "historical"
    /\ SuppressedIsSaved

\* a watch without a saved cursor suppressed an event stamped before its start,
\* and the state file holds the cursor of that event
C19_Witness ==
    /\ run.cold /\ AtNextRead /\ rhist # << >>
    /\ LastEvent.fate = "historical" /\ OlderThanStart(LastEvent)
    /\ lastCall.id = LastEvent.id
    /\ disk.exists /\ disk.JournalCursor = LastEvent.pos

----------------------------------------------------------------------------
(* Claims about the cursor store (checked under SpecStore) *)

\* C13: a Load, whether it runs while a Save is under way or after a Save was
\* cut short, returns the state of the last Save that finished or the state a
\* Save is writing, never an empty, partial or misread one
C13_LoadSeesCompleteState == sgot.ok

\* C14 (checked under SpecRoundTrip): a Load that follows Save(s) returns s, a
\* nil offsets map of s read back as the empty map; a Load of a missing file
\* returns the empty cursor and the empty map; a Load of a legacy file returns
\* the bytes of the file as the cursor and the empty map
C14_LoadReturnsWhatWasSaved ==
    sgot.fresh =>
        /\ sgot.st.JournalCursor = sarg.st.JournalCursor
        /\ ~sgot.st.FileOffsets.nil
        /\ sgot.st.FileOffsets.m = sarg.st.FileOffsets.m
        /\ sarg.op = "remove" => (~sfile.exists /\ sgot.st = EmptyState)
        /\ sarg.op = "legacy" => sgot.st.JournalCursor = sfile.bytes

\* a state with a cursor and a nil map was saved and read back
C14_Witness ==
    /\ sgot.fresh /\ sarg.op = "save"
    /\ sarg.st.FileOffsets.nil /\ sarg.st.JournalCursor = CursorOf(1)
    /\ sgot.st = SourceState(CursorOf(1), Offsets(EmptyMap))

\* C15: at most one command ever saves to the state file, and no Save that
\* finishes leaves an earlier journal cursor or file offset than the one the
\* last finished Save left
C15_SingleWriterMonotone ==
    [][ /\ Cardinality(sdone'.by) <= 1
        /\ CursorPos(sdone'.st.JournalCursor) >= CursorPos(sdone.st.JournalCursor)
        /\ OffsetOf(sdone'.st) >= OffsetOf(sdone.st)
      ]_vars

----------------------------------------------------------------------------
(* Claims about the source selection (checked under SpecSource) *)

\* the source asked for, what is available, and what was picked
SelAsked == IF ToLowerTrimSpace(sel.source) = "" THEN "auto" ELSE ToLowerTrimSpace(sel.source)
SelJournalOK == sel.found
SelJournalRecent == sel.found /\ sel.matches > 0
SelLog ==
    firstExisting(IF sel.paths = << >> THEN <<"/var/log/auth.log", "/var/log/secure">>
                  ELSE sel.paths, 1, sel.exists)
SelPicked == IF sel.out.err THEN "error" ELSE sel.out.Source

\* C18: determineSource picks one source or fails.  An explicit journal or file
\* is picked when it is available and fails otherwise; auto in follow mode picks
\* the journal whenever journalctl is there and the file only when it is not;
\* auto in one-shot mode picks the journal when it has a recent match, else the
\* file when the file has one, and still one of the two (the file) when neither
\* has; with neither journalctl nor a log file the selection fails
C18_SourceSelection ==
    sel.done =>
        /\ SelPicked \in {"journal", "file", "error"}
        /\ SelPicked = "file" => (SelLog.ok /\ sel.out.LogPath = SelLog.path)
        /\ SelPicked = "journal" => SelJournalOK
        /\ SelAsked = "journal" => SelPicked = IF SelJournalOK THEN "journal" ELSE "error"
        /\ SelAsked = "file" => SelPicked = IF SelLog.ok THEN "file" ELSE "error"
        /\ (SelAsked = "auto" /\ sel.follow) =>
              SelPicked = IF SelJournalOK THEN "journal"
                          ELSE IF SelLog.ok THEN "file" ELSE "error"
        /\ (SelAsked = "auto" /\ ~sel.follow) =>
              /\ SelJournalRecent => SelPicked = "journal"
              /\ (~SelJournalRecent /\ sel.fileRecent) => SelPicked = "file"
              /\ (~SelJournalRecent /\ ~sel.fileRecent /\ SelJournalOK /\ SelLog.ok) =>
                    SelPicked = "file"
              /\ (SelJournalOK /\ ~SelLog.ok) => SelPicked = "journal"
              /\ (~SelJournalOK /\ SelLog.ok) => SelPicked = "file"
        /\ (~SelJournalOK /\ ~SelLog.ok) => SelPicked = "error"

\* auto in follow mode picked the journal although it has no recent match and a
\* log file exists
C18_Witness ==
    /\ sel.done /\ SelAsked = "auto" /\ sel.follow
    /\ SelJournalOK /\ ~SelJournalRecent /\ SelLog.ok
    /\ SelPicked = "journal"

----------------------------------------------------------------------------
(* Claims about the filter stack (checked under SpecFilter) *)

Max(S) == CHOOSE x \in S : \A y \in S : y <= x

\* the events before the i-th whose timestamp the deduper recorded under the
\* i-th event's key: failed events that reached the deduper and were not duplicates
RecordedBefore(i) ==
    {j \in 1..(i - 1) :
        /\ fhist[j].ev.Type = EventLoginFailed
        /\ DedupeKey(fhist[j].ev) = DedupeKey(fhist[i].ev)
        /\ fhist[j].out \in {"limited", "pass"}}

\* the failed events before the i-th from the same IP that the limiter accepted
AcceptedBefore(i) ==
    {j \in 1..(i - 1) :
        /\ fhist[j].ev.Type = EventLoginFailed
        /\ fhist[j].ev.IP = fhist[i].ev.IP
        /\ fhist[j].out = "pass"}

\* C5: a login_failed event that reaches the deduper is rejected as a duplicate
\* exactly when the timestamp recorded for its ip:port:user key is less than 5 s
\* before it; a duplicate leaves the recorded timestamp alone, an accepted event
\* (5.000 s or more later) becomes the recorded timestamp; login_success is never
\* a duplicate.
C5_DedupeWindow ==
    \A i \in DOMAIN fhist :
        LET e == fhist[i].ev
            R == RecordedBefore(i)
        IN /\ e.Type = EventLoginSuccess => fhist[i].out # "dup"
           /\ (e.Type = EventLoginFailed /\ fhist[i].out # "type") =>
                  /\ fhist[i].out = "dup" <=>
                        /\ R # {}
                        /\ e.Timestamp - fhist[Max(R)].ev.Timestamp < 5000
                  /\ i = Len(fhist) =>
                        /\ DedupeKey(e) \in DOMAIN filter.seen
                        /\ filter.seen[DedupeKey(e)] =
                              IF fhist[i].out = "dup"
                              THEN fhist[Max(R)].ev.Timestamp
                              ELSE e.Timestamp

\* C5 witness: an event 5.001 s after the recorded one was accepted and recorded,
\* and the next event, 4.999 s after that, was rejected without being recorded
C5_Witness ==
    /\ Len(fhist) = 3
    /\ \A i \in 1..3 : fhist[i].ev.Type = EventLoginFailed
                        /\ DedupeKey(fhist[i].ev) = <<"1.1.1.1", 22, "root">>
    /\ fhist[2].ev.Timestamp - fhist[1].ev.Timestamp = 5001
    /\ fhist[3].ev.Timestamp - fhist[2].ev.Timestamp = 4999
    /\ fhist[1].out = "pass" /\ fhist[2].out = "pass" /\ fhist[3].out = "dup"
    /\ filter.seen[<<"1.1.1.1", 22, "root">>] = fhist[2].ev.Timestamp

\* C6: with fail_limit > 0 a login_failed event that reaches the rate limiter is
\* rejected exactly when the window of length fail_window ending at its timestamp
\* already holds fail_limit accepted timestamps of its IP (rejected ones are not
\* counted), so no such window ever holds more than fail_limit accepted events;
\* with fail_limit = 0 nothing is limited.
C6_RateLimit ==
    \A i \in DOMAIN fhist :
        LET e == fhist[i].ev
            inWindow == {j \in AcceptedBefore(i) :
                            e.Timestamp - fhist[j].ev.Timestamp < filter.window}
        IN /\ fhist[i].out = "limited" => e.Type = EventLoginFailed /\ filter.limit > 0
           /\ (e.Type = EventLoginFailed /\ fhist[i].out \in {"limited", "pass"}
                 /\ filter.limit > 0) =>
                  /\ fhist[i].out = "limited" <=> Cardinality(inWindow) >= filter.limit
                  /\ fhist[i].out = "pass" => Cardinality(inWindow) + 1 <= filter.limit

\* C6 witness: fail_limit accepted events, a rejected one inside the window, and
\* an accepted one from the same IP once the window has passed
C6_Witness ==
    /\ filter.limit = 1
    /\ Len(fhist) = 3
    /\ \A i \in 1..3 : fhist[i].ev.Type = EventLoginFailed /\ fhist[i].ev.IP = "1.1.1.1"
    /\ fhist[1].out = "pass" /\ fhist[2].out = "limited" /\ fhist[3].out = "pass"
    /\ fhist[3].ev.Timestamp - fhist[1].ev.Timestamp = filter.window

----------------------------------------------------------------------------
(* Claims about the notify commands and the configuration file (checked    *)
(* under SpecConfig)                                                       *)

\* the positions of the channels with enabled = true in cfg
EnabledIn(cfg) == {i \in DOMAIN cfg : cfg[i].Enabled}

\* C21: every dispatchEvent begins with loadConfig; when no command is in the
\* middle of writing the file, the channels it ranges over are exactly those with
\* enabled = true in the file as it is on disk at that moment, so an edit that has
\* been written applies to the very next event; Send is only ever called on a
\* channel that is enabled in the configuration loaded for the event, and when
\* dispatchEvent has returned, every enabled channel of it was sent to once and no
\* disabled one
C21_ReloadedForEveryEvent ==
    /\ [][/\ (dpc \in {"idle", "done"} /\ dpc' # dpc) => dpc' = "load"
          /\ (dpc = "load" /\ dpc' # "load" /\ cli.pc = "idle" /\ configExists(cfgFile)) =>
                /\ dcfg' = cfgFile.channels
                /\ {dch'[k].idx : k \in DOMAIN dch'} = EnabledIn(cfgFile.channels)
          /\ \A i \in DOMAIN dsent' :
                (i \notin DOMAIN dsent \/ dsent'[i] > dsent[i]) =>
                    (dsent'[i] = 0 \/ dcfg'[i].Enabled)]_vars
    /\ [](dpc = "done" /\ dcfg # << >> =>
            \A i \in DOMAIN dcfg : dsent[i] = IF dcfg[i].Enabled THEN 1 ELSE 0)

\* notify disable has been written while the watcher runs, and the event
\* dispatched next went to the channel still enabled and not to the disabled one
C21_Witness ==
    /\ dpc = "done" /\ cli.pc = "idle"
    /\ chist.op = "disable" /\ chist.res = "saved"
    /\ dcfg = cfgFile.channels /\ dcfg # chist.old.channels
    /\ \E i, j \in DOMAIN dcfg :
          /\ dcfg[i].Enabled /\ dsent[i] = 1
          /\ ~dcfg[j].Enabled /\ chist.old.channels[j].Enabled /\ dsent[j] = 0

\* no two channels of cfg share a name that is set
UniqueNames(cfg) ==
    \A i, j \in DOMAIN cfg : (i # j /\ cfg[i].Name # "") => cfg[i].Name # cfg[j].Name

\* C22: a notify curl that saves leaves the channel list it loaded with the
\* channel of the same non-empty name overwritten in place (same length, every
\* other position as it was), or, when no channel has that name, with the new
\* channel appended; the files the commands write never hold two channels of
\* the same name
C22_ConfigureReplacesOrAppends ==
    /\ [][(chist'.n = chist.n + 1 /\ chist'.op = "configure" /\ chist'.res = "saved") =>
            LET old == chist'.old.channels
                new == chist'.new.channels
                hits == {i \in DOMAIN old : old[i].Name # "" /\ old[i].Name = chist'.ch.Name}
            IN  IF hits # {}
                THEN /\ Len(new) = Len(old)
                     /\ \E i \in hits :
                           /\ new[i] = chist'.ch
                           /\ \A j \in DOMAIN old \ {i} : new[j] = old[j]
                ELSE new = Append(old, chist'.ch)]_vars
    /\ [](UniqueNames(cfgFile.channels) /\ UniqueNames(chist.new.channels))

\* a notify curl --name a has overwritten the first of two channels with another
\* command line and left the second as it was
C22_Witness ==
    /\ cli.pc = "idle" /\ chist.op = "configure" /\ chist.res = "saved"
    /\ cfgFile = chist.new
    /\ Len(chist.old.channels) = 2 /\ Len(cfgFile.channels) = 2
    /\ chist.old.channels[1].Name = "a" /\ cfgFile.channels[1].Name = "a"
    /\ cfgFile.channels[1] # chist.old.channels[1]
    /\ cfgFile.channels[2] = chist.old.channels[2]

\* C24: whenever a command (notify curl, enable, disable, delete) begins a save
\* over an existing notify.json, notify.json.backup holds, at that step, the
\* contents notify.json had before the save
C24_BackupBeforeEverySave ==
    [][(chist'.n = chist.n + 1 /\ chist'.res = "saved" /\ configExists(cfgFile)) =>
            backup' = cfgFile]_vars

\* C25: whenever dispatchEvent reloads the configuration, what it reads from
\* notify.json is the complete file the last command found or the complete file
\* that command writes, never a truncated one
C25_ReloadSeesOldOrNew ==
    [][(dpc = "load" /\ dpc' # "load") => cfgFile \in {chist.old, chist.new}]_vars

\* the ChannelConfig invariants: exactly one of curl / email is present and
\* matches type, the addresses parse, the port is in [1, 65535], the curl
\* command is non-empty and parses
WellFormedChannel(ch) ==
    \/ /\ ch.Type = "curl" /\ ch.Curl # Nil /\ ch.Email = Nil
       /\ ch.Curl # CurlCmd(<< >>, FALSE)
       /\ ~ParseCurl(ch.Curl).err
    \/ /\ ch.Type = "email" /\ ch.Email # Nil /\ ch.Curl = Nil
       /\ ParseAddressOK(ch.Email.To) /\ ParseAddressOK(ch.Email.From)
       /\ ch.Email.Port \in 1..65535

WellFormedConfig(cfg) ==
    UniqueNames(cfg) /\ \A i \in DOMAIN cfg : WellFormedChannel(cfg[i])

\* C23: a Config that SaveConfig goes on to write, and a Config that LoadConfig
\* returns without error, satisfies the ChannelConfig invariants (checked under
\* SpecValidate)
C23_AcceptedConfigIsWellFormed ==
    /\ (cli.pc = "write") => WellFormedConfig(cli.data)
    /\ (chist.op = "load" /\ chist.res = "none") => WellFormedConfig(cli.data)

----------------------------------------------------------------------------
(* Claims about one SMTP Send (checked under SpecSMTP)                     *)

\* the steps of a Send in the order a complete session makes them
SmtpOrder ==
    <<"DIAL", "TLS", "GREETING", "EHLO", "STARTTLS", "AUTH", "MAIL", "RCPT", "DATA",
      "MESSAGE", "END", "QUIT">>

SmtpRank(step) == CHOOSE i \in DOMAIN SmtpOrder : SmtpOrder[i] = step

\* what the client sends to the server once the connection stands
SmtpCommands == {"EHLO", "STARTTLS", "AUTH", "MAIL", "RCPT", "DATA", "MESSAGE", "END", "QUIT"}

Made(step) == \E i \in DOMAIN wire : wire[i] = step

C28_CRLFGuard ==
    IF ContainsAny(smtp.To, {CR, LF}) \/ ContainsAny(smtp.From, {CR, LF})
    THEN /\ wire = << >>
         /\ smtp.pc \in {"validate", "done"}
         /\ smtp.pc = "done" => smtp.ret = "error"
    ELSE smtp.pc \notin {"validate", "dial"} => Made("DIAL")

\* a Send whose To holds a CR has returned an error with nothing dialled or sent
C28_Witness ==
    /\ smtp.To = <<"a", CR, "b">> /\ smtp.From = <<"a", "@", "b">>
    /\ smtp.pc = "done" /\ smtp.ret = "error" /\ wire = << >>

----------------------------------------------------------------------------
(* Claims about the curl parser (checked under SpecTokenize, SpecParseCurl) *)

\* the characters of s are all in S
Over(s, S) == \A i \in DOMAIN s : s[i] \in S

\* number of positions of s that hold c
Count(s, c) == Cardinality({i \in DOMAIN s : s[i] = c})

\* the maximal runs of non-blank characters of s, in order
RunStarts(s) == {i \in DOMAIN s : s[i] \notin Whitespace /\ (i = 1 \/ s[i - 1] \in Whitespace)}
RunEnd(s, i) ==
    CHOOSE j \in i..Len(s) :
        /\ \A k \in i..j : s[k] \notin Whitespace
        /\ (j = Len(s) \/ s[j + 1] \in Whitespace)
Runs(s) ==
    [k \in 1..Cardinality(RunStarts(s)) |->
        LET i == CHOOSE x \in RunStarts(s) : Cardinality({y \in RunStarts(s) : y <= x}) = k
        IN  SubSeq(s, i, RunEnd(s, i))]

\* the splits of the command line into a part before, a quoted or escaped
\* middle, and a part after
Splits(s) == {<<i, j>> \in (0..Len(s)) \X (0..Len(s)) : i < j}

\* C30 (as the code has it): on a command line without quotes and backslashes
\* tokenize returns its maximal runs of non-blank characters; text between two
\* quotes of one kind, blanks and quotes of the other kind included, stays in
\* one token together with the unquoted text that touches it, the two quotes
\* removed; a backslash is removed and the character after it is taken as it is,
\* a blank or a quote included; with one kind of quote and no backslash the
\* result is an error exactly when the number of quotes is odd; and the example
\* command line yields five tokens: curl, -H, X: y, a b, http://x
C30_TokenizeSemantics ==
    curlOut.done =>
        /\ Over(curlIn, {"a"} \cup Whitespace) =>
              (~curlOut.err /\ curlOut.tokens = Runs(curlIn))
        /\ \A q \in {DQ, SQ} :
              (Over(curlIn, CmdChars \ {BS, IF q = DQ THEN SQ ELSE DQ})) =>
                  (curlOut.err <=> Count(curlIn, q) % 2 = 1)
        /\ \A q \in {DQ, SQ}, cut \in Splits(curlIn) :
              LET pre == SubSeq(curlIn, 1, cut[1] - 1)
                  mid == SubSeq(curlIn, cut[1] + 1, cut[2] - 1)
                  post == SubSeq(curlIn, cut[2] + 1, Len(curlIn))
              IN  (/\ cut[1] >= 1 /\ curlIn[cut[1]] = q /\ curlIn[cut[2]] = q
                   /\ Over(pre, {"a"}) /\ Over(post, {"a"})
                   /\ Over(mid, CmdChars \ {BS, q}))
                  => (/\ ~curlOut.err
                      /\ curlOut.tokens = IF pre \o mid \o post = << >> THEN << >>
                                          ELSE <<pre \o mid \o post>>)
        /\ \A i \in DOMAIN curlIn :
              LET pre == SubSeq(curlIn, 1, i - 1)
                  post == SubSeq(curlIn, i + 2, Len(curlIn))
              IN  (/\ curlIn[i] = BS /\ i < Len(curlIn)
                   /\ Over(pre, {"a"}) /\ Over(post, {"a"}))
                  => (/\ ~curlOut.err
                      /\ curlOut.tokens = <<pre \o <<curlIn[i + 1]>> \o post>>)
        /\ curlIn = ExampleCmd =>
              (/\ ~curlOut.err
               /\ curlOut.tokens = <<<<"c", "u", "r", "l">>, <<"-", "H">>,
                                     <<"X", ":", " ", "y">>, <<"a", " ", "b">>,
                                     <<"h", "t", "t", "p", ":", "/", "/", "x">>>>)

\* C30 as stated: the example command line yields four tokens
C30_ExampleYieldsFourTokens ==
    (curlOut.done /\ curlIn = ExampleCmd) => Len(curlOut.tokens) = 4

\* tokenize has returned for the example command line
C30_Witness ==
    /\ curlOut.done /\ curlIn = ExampleCmd /\ Len(curlOut.tokens) = 5

\* the request ParseCurl returns for the argument list args
Parsed29(args) == ParseCurl(CurlCmd(args, FALSE))

\* C29: with the URL alone the method is GET and the body empty; an argument list
\* without a URL is rejected; and for a list A that holds no URL and is accepted
\* when the URL follows it, A followed by one more option and the URL gives: -X / --request v gives method upper-case v and nothing
\* else new, -d / --data-raw v gives body v and turns the method into POST exactly
\* when it was GET after A (by default or by an explicit -X get) and leaves any
\* other method, -H h adds the header h and nothing else when h holds a colon
\* and is rejected when it does not
C29_ParseCurlSemantics ==
    curlOut.done =>
        LET args == curlIn.words
            r == curlOut.req
            n == Len(args)
        IN  /\ (\A i \in DOMAIN args : ~isURL(args[i])) => r.err
            /\ args \in {<<"http://sink">>, <<"curl", "http://sink">>} =>
                  (~r.err /\ r.Method = "GET" /\ r.Body = "" /\ r.Headers = {}
                   /\ r.URL = "http://sink")
            /\ (n >= 3 /\ isURL(args[n]) /\ \A i \in 1..(n - 3) : ~isURL(args[i])) =>
                  LET f == args[n - 2]
                      v == args[n - 1]
                      base == Parsed29(SubSeq(args, 1, n - 3) \o <<args[n]>>)
                  IN  ~base.err =>
                        /\ f \in {"-X", "--request"} =>
                              r = [base EXCEPT !.Method = ToUpper(v)]
                        /\ f \in {"-d", "--data-raw"} =>
                              r = [base EXCEPT !.Body = v,
                                               !.Method = IF base.Method = "GET"
                                                          THEN "POST" ELSE base.Method]
                        /\ f = "-H" =>
                              IF v \in {"X: y", "http://sink"}
                              THEN r = [base EXCEPT !.Headers = base.Headers \cup {v}]
                              ELSE r.err

\* -X get -d {} and the URL: the explicit GET was still GET at the -d and
\* became POST
C29_Witness ==
    /\ curlOut.done
    /\ curlIn.words = <<"-X", "get", "-d", "{}", "http://sink">>
    /\ ~curlOut.req.err /\ curlOut.req.Method = "POST" /\ curlOut.req.Body = "{}"

\* the recognised patterns as lists of fields: "*" a non-empty field, "#" a field
\* that starts with a digit
Skeletons ==
    {<<"Accepted", "*", "for", "*", "from", "*", "port", "#">>,
     <<"Failed", "*", "for", "*", "from", "*", "port", "#">>,
     <<"Failed", "*", "for", "invalid", "user", "*", "from", "*", "port", "#">>,
     <<"Disconnected", "from", "authenticating", "user", "*", "*", "port", "#">>}

PreauthSkeletons ==
    {<<"Connection", "closed", "by", "authenticating", "user", "*", "*", "port", "#">>,
     <<"Connection", "closed", "by", "*", "port", "#">>}

Fits(m, sk) ==
    /\ Len(m) >= Len(sk)
    /\ \A k \in 1..Len(sk) :
          CASE sk[k] = "*" -> m[k] # ""
            [] sk[k] = "#" -> LeadingDigits(m[k]) >= 0
            [] OTHER -> m[k] = sk[k]

\* the line matches a recognised pattern: in a file, after a syslog prefix of sshd
\* with a date that exists
Recognised(line) ==
    LET m == IF line.mode = "file" THEN TrimLeft(line.msg) ELSE line.msg IN
    /\ line.mode = "file" =>
          /\ line.pre \in SyslogPrefixes
          /\ line.pre[1] = "Feb" /\ line.pre[2] = "1" /\ line.pre[3] = "10:00:00"
          /\ line.pre[5] \in {"sshd[1]:", "sshd:"}
    /\ \/ \E sk \in Skeletons : Fits(m, sk)
       \/ /\ \E k \in 1..Len(m) : m[k] = "[preauth]"
          /\ \E sk \in PreauthSkeletons : Fits(m, sk)

\* C31: for every line matching a recognised pattern the returned LoginEvent has a
\* non-empty user, a valid IP address, a port in [0, 65535] and a type that is
\* login_success or login_failed; for every other line the parser returns no event
C31_ParsedEventIsValid ==
    logOut # << >> /\ logOut.done =>
        IF Recognised(logLine)
        THEN /\ logOut.event.ok
             /\ logOut.event.User # ""
             /\ IsIP(logOut.event.IP)
             /\ logOut.event.Port \in 0..65535
             /\ logOut.event.Type \in {EventLoginSuccess, EventLoginFailed}
        ELSE ~logOut.event.ok

\* the first lookup of the address of call n, 0 when call n is the first
FirstLookup(n) ==
    IF \E k \in 1..(n - 1) : lhist[k].ip = lhist[n].ip
    THEN CHOOSE k \in 1..(n - 1) :
            /\ lhist[k].ip = lhist[n].ip
            /\ \A j \in 1..(k - 1) : lhist[j].ip # lhist[n].ip
    ELSE 0

ProviderFailed(reply) == reply \in {"err", ""}

\* C32: providers are queried only on the first lookup of a non-private address:
\* that lookup stores its result (the empty result when every provider failed) and
\* every later lookup of the address returns the stored value without a query;
\* private and loopback addresses return the private label without a query
C32_LookupCaching ==
    look # << >> =>
    \A n \in 1..Len(lhist) :
       LET h == lhist[n] IN
       IF isPrivateIP(h.ip)
       THEN h.replies = << >> /\ h.ret = PrivateLabel /\ h.after = h.before
       ELSE IF FirstLookup(n) = 0
       THEN /\ h.replies # << >>
            /\ \A k \in 1..(Len(h.replies) - 1) : ProviderFailed(h.replies[k])
            /\ IF ProviderFailed(Last(h.replies))
               THEN Len(h.replies) = NumProviders /\ h.ret = ""
               ELSE h.ret = Last(h.replies)
            /\ h.ip \in DOMAIN h.after /\ h.after[h.ip] = h.ret
       ELSE /\ h.replies = << >>
            /\ h.ret = lhist[FirstLookup(n)].ret
            /\ h.after = h.before

\* an address whose providers all failed is looked up again and answered from the
\* cache, after a private address was looked up
C32_Witness ==
    /\ look # << >> /\ Len(lhist) = 3
    /\ ~isPrivateIP(lhist[1].ip) /\ lhist[1].ret = "" /\ Len(lhist[1].replies) = 2
    /\ isPrivateIP(lhist[2].ip)
    /\ lhist[3].ip = lhist[1].ip /\ lhist[3].replies = << >>

\* PollReopen replaces the open file by the one the path names now
SwitchesFile == pc = "eofSleep" /\ pc' = "read" /\ rd'.inode # rd.inode

\* C33: in follow mode every complete matching line appended to the log file is
\* passed to the filter stack, including the lines appended to the old file after
\* the reader's last read and before the rotation is detected: when the reader
\* leaves a file, no matching line of it is unread
C33_NoLineLeftBehind ==
    [][ (run.follow /\ SwitchesFile) =>
           \A i \in (offset + 1)..Len(files[rd.inode].lines) :
              ~parseLine(files[rd.inode].lines[i]).ok ]_vars

\* at the poll after end of file the path names another file than the open one,
\* or a file shorter than the offset
RotationSeen ==
    /\ pc = "eofSleep" /\ pc' = "read" /\ pathInode # 0
    /\ rd.inode # pathInode \/ FileSize(files[pathInode]) < offset

\* the reader reads the file reopenIfRotated opened, not truncated since
ReadsReopened ==
    /\ run.follow /\ pc # "stopped" /\ src = "file"
    /\ reopened.inode # 0 /\ rd.inode = reopened.inode
    /\ files[rd.inode].trunc = reopened.trunc

\* record r went through the filter stack in this run, or is on its way to it
PassedOn(r) ==
    \/ pc = "lookup" /\ cur.id = r.id
    \/ \E j \in DOMAIN rhist :
          rhist[j].id = r.id /\ rhist[j].fate \in {"filter", "sending", "ok", "error"}

\* C34: in follow mode, when at end of file the path names a different file than
\* the open one or a file smaller than the offset, the reader opens the path with
\* the offset reset to 0, and every line of the new file is then read from its
\* start and handed on
C34_ReopenReadsFromStart ==
    /\ [][ (run.follow /\ RotationSeen) => (rd'.inode = pathInode /\ offset' = 0) ]_vars
    /\ [](ReadsReopened =>
            /\ offset <= Len(files[rd.inode].lines)
            /\ \A i \in 1..offset :
                  parseLine(files[rd.inode].lines[i]).ok =>
                     PassedOn(files[rd.inode].lines[i]))

\* after a rotation the reader has read a line of the new file and dispatched it
C34_Witness ==
    /\ ReadsReopened /\ rd.inode = 2 /\ offset = 1
    /\ parseLine(files[2].lines[1]).ok
    /\ \E j \in DOMAIN rhist : rhist[j].id = files[2].lines[1].id /\ rhist[j].fate = "ok"

\* the command starts journalctl; readLogFile opens the file and seeks
StartsJournal == pc = "stopped" /\ pc' = "jscan"
OpensFile == pc = "open" /\ pc' = "read"

\* C35: a run starts reading at the saved position whenever one exists (the saved
\* cursor; the saved offset of the file, or its end when the file is shorter); only
\* when none is saved does follow mode start from now / the end of the file, and a
\* lookback sweep from the lookback bound / offset 0
C35_StartsAtSavedPosition ==
    [][ /\ StartsJournal =>
              LET saved == Load(disk).JournalCursor IN
              jpos' = IF saved # 0 THEN saved
                      ELSE IF run'.follow THEN Len(journal)
                      ELSE IF run'.since > 0
                      THEN Cardinality({i \in DOMAIN journal :
                                           journal[i].ts < clock - run'.since})
                      ELSE 0
        /\ OpensFile =>
              LET saved == state.FileOffset
                  size == FileSize(files[pathInode])
              IN offset' = IF saved > 0 THEN (IF saved > size THEN size ELSE saved)
                           ELSE IF run.follow THEN size
                           ELSE 0 ]_vars

\* notify.json holds a channel that fails validation
ConfigRejected == cfgFile.state = "json" /\ ~ValidateConfig(cfgFile.channels)

\* dispatchEvent has returned and the loop takes the event back
DispatchOver == pc = "dispatch" /\ dpc = "done" /\ pc' # "dispatch"

\* C36: if notify.json holds any channel that fails validation, even a disabled
\* one, dispatchEvent attempts Send on no channel and returns an error, while the
\* position of the event is still saved (by the sweep of a file: kept as latest,
\* which is saved when the sweep ends)
C36_RejectedConfigSendsNothing ==
    /\ [](ConfigRejected => dpc # "sending" /\ dsent = << >>)
    /\ [][ (ConfigRejected /\ DispatchOver) =>
              /\ dret = "error"
              /\ rhist'[Len(rhist')].fate = "error"
              /\ IF SavesPerEvent
                 THEN /\ lastCall' = cur
                      /\ cur.pos = IF src = "journal" THEN state'.JournalCursor
                                   ELSE state'.FileOffset
                 ELSE latest >= cur.pos ]_vars

\* with a disabled channel that fails validation next to the working webhook, an
\* event came back from dispatchEvent with an error and its position is on disk
C36_Witness ==
    /\ ConfigRejected
    /\ \A i \in DOMAIN cfgFile.channels :
          ~ValidateChannelConfig(cfgFile.channels[i]) => ~cfgFile.channels[i].Enabled
    /\ rhist # << >> /\ LastEvent.fate = "error"
    /\ disk.exists /\ diskTag.run = nrun /\ diskTag.upTo = LastEvent.id

\* C37: a sweep with notify=false still saves the journal cursor or the file
\* offset past every event it printed, although no event was sent: the journal
\* sweep calls Save with the cursor of each printed event, the file sweep that
\* reaches the end of the file calls Save with an offset past all of them
C37_SilentSweepSavesPosition ==
    (~run.follow /\ ~run.notify /\ nrun > 0) =>
        /\ \A i \in DOMAIN rhist : rhist[i].fate \notin {"sending", "ok", "error"}
        /\ (src = "journal" /\ rhist # << >> /\ LastEvent.fate = "silent") =>
              /\ lastCall.id = LastEvent.id
              /\ state.JournalCursor = LastEvent.pos
        /\ (src = "file" /\ pc = "stopped" /\ ret \in {"nil", "save error"}) =>
              /\ state.FileOffset = lastCall.pos
              /\ \A i \in DOMAIN rhist :
                    rhist[i].fate = "silent" => lastCall.pos >= rhist[i].pos

\* a silent sweep of the journal printed an event and its cursor is on disk
C37_Witness ==
    /\ ~run.follow /\ ~run.notify /\ nrun > 0 /\ src = "journal"
    /\ rhist # << >> /\ LastEvent.fate = "silent"
    /\ handedEver = {}
    /\ disk.exists /\ disk.JournalCursor = LastEvent.pos

\* the line of the file that ends at byte n
WholeLineEndingAt(n) ==
    LET start == IF \E k \in 1..(n - 1) : logBytes[k] = LF
                 THEN 1 + CHOOSE k \in 1..(n - 1) :
                             logBytes[k] = LF /\ \A j \in (k + 1)..(n - 1) : logBytes[j] # LF
                 ELSE 1
    IN SubSeq(logBytes, start, n)

\* C38: readLogFile's offset always equals the number of bytes it has consumed
\* from the file, each event's offset is the byte position just after its line,
\* and every parsed line is a whole line of the file, also when a read reaches
\* the end of the file in the middle of a line that is completed later
C38_OffsetCountsConsumedBytes ==
    reader # << >> =>
        /\ reader.offset = reader.pos
        /\ \A i \in DOMAIN reader.lines :
              LET l == reader.lines[i] IN
              /\ l.offset \in 1..Len(logBytes) /\ logBytes[l.offset] = LF
              /\ l.text = WholeLineEndingAt(l.offset)

\* the events the records of the attempt are parsed to
AttemptEvents ==
    { i \in 1..Len(attempt.recs) : parseJournalMessage(attempt.recs[i].msg).ok }
AttemptOver == attempt.next > Len(attempt.recs)
NotifiesFailed == filter.notifyOn \in {NotifyOnAll, NotifyOnFailed}
WithinWindow == \A i \in 1..Len(attempt.recs) : attempt.recs[i].at < 5000
NamesUser(i) == parseJournalMessage(attempt.recs[i].msg).User = "root"
LastOf(S) == CHOOSE i \in S : \A j \in S : j <= i

\* C39 as stated: the Failed password, Disconnected from authenticating user and
\* Connection closed ... [preauth] lines of one failed attempt, less than 5 s
\* apart and from the same ip and port, end in exactly one dispatch, and the
\* cursor is past all of them
C39_AttemptCollapsesByAddress ==
    (AttemptOver /\ NotifiesFailed /\ WithinWindow /\ AttemptEvents # {}) =>
        /\ Len(attempt.sent) = 1
        /\ attempt.cursor = LastOf(AttemptEvents)

\* C39, amended: when every line of the attempt that is an event names the same
\* user and comes less than 5 s after the first, exactly one dispatch is made, for
\* the first of them, and the saved cursor is that of the last of them
C39_AttemptCollapsesByUser ==
    (AttemptOver /\ NotifiesFailed /\ WithinWindow /\ AttemptEvents # {}
       /\ \A i \in AttemptEvents : NamesUser(i)) =>
        /\ Len(attempt.sent) = 1
        /\ \A i \in AttemptEvents : attempt.sent[1].rec <= i
        /\ attempt.cursor = LastOf(AttemptEvents)

\* Failed password, Disconnected from authenticating user root and Connection
\* closed by authenticating user root, 2 s and 4.999 s after it, have been read
C39_Witness ==
    /\ AttemptOver /\ NotifiesFailed
    /\ Len(attempt.recs) = 3
    /\ attempt.recs[1].msg[1] = "Failed" /\ attempt.recs[2].msg[1] = "Disconnected"
    /\ attempt.recs[3].msg[1] = "Connection" /\ NamesUser(3)
    /\ attempt.recs[2].at = 2000 /\ attempt.recs[3].at = 4999
    /\ Len(attempt.sent) = 1 /\ attempt.cursor = 3

\* the event the filter stack has just decided on, and its verdict
JustFiltered == fhist'[Len(fhist')]
FilterStep == Len(fhist') = Len(fhist) + 1

\* C40: both filter maps stay bounded: whenever the deduper records a timestamp T
\* for a key it removes every key whose recorded timestamp is older than T minus
\* 10 times the 5-second window (and no other key); whenever the rate limiter
\* accepts an event at T it removes every IP whose newest timestamp is older than
\* T minus 2 x fail_window (and no other IP); no per-IP list ever holds more than
\* fail_limit timestamps
C40_FilterMapsPruned ==
    /\ [][ FilterStep =>
             LET e == JustFiltered.ev
                 T == e.Timestamp
                 out == JustFiltered.out
             IN /\ (e.Type = EventLoginFailed /\ out \in {"limited", "pass"}) =>
                      /\ DedupeKey(e) \in DOMAIN filter'.seen
                      /\ filter'.seen[DedupeKey(e)] = T
                      /\ \A k \in DOMAIN filter'.seen :
                            ~(filter'.seen[k] < T - 10 * 5000)
                      /\ \A k \in DOMAIN filter.seen :
                            (k # DedupeKey(e) /\ ~(filter.seen[k] < T - 10 * 5000)) =>
                               (k \in DOMAIN filter'.seen /\ filter'.seen[k] = filter.seen[k])
                /\ (e.Type = EventLoginFailed /\ out = "pass" /\ filter.limit > 0) =>
                      /\ e.IP \in DOMAIN filter'.counts
                      /\ Last(filter'.counts[e.IP]) = T
                      /\ \A ip \in DOMAIN filter'.counts :
                            /\ filter'.counts[ip] # << >>
                            /\ ~(Last(filter'.counts[ip]) < T - 2 * filter.window)
                      /\ \A ip \in DOMAIN filter.counts :
                            (ip # e.IP /\ filter.counts[ip] # << >>
                               /\ ~(Last(filter.counts[ip]) < T - 2 * filter.window)) =>
                               (ip \in DOMAIN filter'.counts
                                  /\ filter'.counts[ip] = filter.counts[ip])
                /\ out \in {"type", "dup"} => filter' = filter ]_vars
    /\ [](\A ip \in DOMAIN filter.counts :
             Len(filter.counts[ip]) <= filter.limit)

\* three failed events of different keys and addresses, each more than 50 s after
\* the one before, were accepted by a limiter with fail_limit 1: each map holds
\* only the entry of the last one
C40_Witness ==
    /\ Len(fhist) = 3 /\ filter.limit = 1
    /\ \A i \in 1..3 : fhist[i].ev.Type = EventLoginFailed /\ fhist[i].out = "pass"
    /\ fhist[1].ev.IP # fhist[2].ev.IP /\ fhist[2].ev.IP # fhist[3].ev.IP
    /\ DOMAIN filter.seen = {DedupeKey(fhist[3].ev)}
    /\ DOMAIN filter.counts = {fhist[3].ev.IP}

\* C1: when dispatchEvent has returned for an event whose configuration loaded,
\* every channel enabled in that configuration was attempted exactly once (its
\* notifier built, and Send called exactly once when the build succeeded), no
\* disabled channel was sent to, a failure of one channel left the others
\* attempted, and the return value is an error exactly when the build or the
\* Send of at least one enabled channel failed; no channel is ever sent to twice
C1_ChannelFailed(i) ==
    /\ dcfg[i].Enabled
    /\ \/ buildChannelNotifier(dcfg[i]).err
       \/ dres[i] \in {"fail", "timeout"}

C1_EveryEnabledChannelOnce ==
    /\ \A i \in DOMAIN dsent : dsent[i] <= 1
    /\ (dpc = "done" /\ Len(dcfg) > 0) =>
          /\ \A i \in DOMAIN dcfg :
                /\ dsent[i] = IF dcfg[i].Enabled /\ ~buildChannelNotifier(dcfg[i]).err
                              THEN 1 ELSE 0
                /\ (dsent[i] = 1) <=> (dres[i] # "none")
          /\ (dret = "error") <=> (\E i \in DOMAIN dcfg : C1_ChannelFailed(i))

\* a dispatch over two enabled channels has returned: the first failed, the
\* second was still sent to, and the aggregated error came back
C1_Witness ==
    /\ dpc = "done" /\ Len(dcfg) = 2
    /\ dcfg[1].Enabled /\ dcfg[2].Enabled
    /\ C1_ChannelFailed(1)
    /\ dsent[2] = 1 /\ dres[2] = "ok"
    /\ dret = "error"

====
